---- MODULE Spec2Model ----
(***************************************************************************)
(* A model of the orchestration core of DRYES (dryes/indices/dryes_index.py *)
(* and dryes/utils/time.py): the fixed-cadence calendar, the expansion of  *)
(* the configuration into cases, the resolution of the missing timesteps   *)
(* against a persisted store, and the stages of DRYESIndex.compute.        *)
(*                                                                         *)
(* A date is its proleptic Gregorian ordinal (datetime.toordinal()), so    *)
(* that date comparison is integer comparison and timedelta(days=k) is +k. *)
(***************************************************************************)
EXTENDS Integers, Sequences, FiniteSets, TLC

(***************************************************************************)
(* Bounds of the model.                                                    *)
(***************************************************************************)
\* number of consecutive calendar years, from 2019 on, the calendar
\* operations are explored over (2020 is a leap year)
MaxYears == 2

\* largest size of a window get_window is explored with
MaxWindow == 4

(***************************************************************************)
(* datetime: the calendar arithmetic of Python's datetime / timedelta.     *)
(***************************************************************************)
IsLeap(y) == (y % 4 = 0) /\ ((y % 100 # 0) \/ (y % 400 = 0))

DaysInMonth(y, m) ==
    IF m = 2 THEN (IF IsLeap(y) THEN 29 ELSE 28)
    ELSE IF m \in {4, 6, 9, 11} THEN 30 ELSE 31

DaysBeforeYear(y) ==
    365 * (y - 1) + ((y - 1) \div 4) - ((y - 1) \div 100) + ((y - 1) \div 400)

\* the days of a year before the first day of month m (m = 13: the whole year)
DaysBeforeMonth(y, m) ==
    <<0, 31, 59, 90, 120, 151, 181, 212, 243, 273, 304, 334, 365>>[m]
        + (IF m > 2 /\ IsLeap(y) THEN 1 ELSE 0)

\* datetime(y, m, d), for a valid (y, m, d)
Date(y, m, d) == DaysBeforeYear(y) + DaysBeforeMonth(y, m) + d

\* date.year, date.month, date.day
YearOf(t) ==
    LET est == (((t - 1) * 400) \div 146097) + 1
    IN  IF t <= DaysBeforeYear(est) THEN est - 1
        ELSE IF t > DaysBeforeYear(est + 1) THEN est + 1
        ELSE est

MonthOf(t) ==
    LET y == YearOf(t)
        n == t - DaysBeforeYear(y)
    IN  CHOOSE m \in 1..12 : DaysBeforeMonth(y, m) < n /\ n <= DaysBeforeMonth(y, m + 1)

DayOf(t) ==
    LET y == YearOf(t)
    IN  t - DaysBeforeYear(y) - DaysBeforeMonth(y, MonthOf(t))

\* every date of the explored years
AllDates == Date(2019, 1, 1) .. Date(2019 + MaxYears - 1, 12, 31)

\* np.ceil(a / b) for positive integers
Ceil(a, b) == (a + b - 1) \div b

Min2(a, b) == IF a <= b THEN a ELSE b

(***************************************************************************)
(* dryes/utils/time.py: get_interval, get_date_from_interval               *)
(***************************************************************************)
IntervalCadences == {1, 2, 3, 4, 6, 12, 24, 36}

MonthCadences == {1, 2, 3, 4, 6, 12}

\* interval_length: in months for the month cadences, in days for 24 and 36
interval_length(num_intervals) ==
    IF num_intervals \in MonthCadences THEN 12 \div num_intervals
    ELSE IF num_intervals = 24 THEN 15
    ELSE 10

\* a plausible slip: the in-month interval is not clamped to the number of
\* intervals of a month, so that days 31 (and 30 at the dekad cadence) fall
\* in an interval of the next month
get_interval_unclamped(date, num_intervals) ==
    IF num_intervals \in MonthCadences
    THEN Ceil(MonthOf(date), interval_length(num_intervals))
    ELSE (MonthOf(date) - 1) * (num_intervals \div 12)
            + Ceil(DayOf(date), interval_length(num_intervals))

get_interval(date, num_intervals) ==
    IF num_intervals \in MonthCadences
    THEN Ceil(MonthOf(date), interval_length(num_intervals))
    ELSE LET intervals_per_month == num_intervals \div 12
         IN  (MonthOf(date) - 1) * intervals_per_month
                + Min2(Ceil(DayOf(date), interval_length(num_intervals)),
                       intervals_per_month)

\* a plausible slip: the last interval of a month at the cadences 24 and 36
\* ends interval_length days after its start as the others do (on day 30),
\* and not on the last day of the month
get_date_from_interval_fixed_length(interval, year, num_intervals, end) ==
    IF num_intervals \in MonthCadences
    THEN LET len    == interval_length(num_intervals)
             month0 == (interval - 1) * len + 1
             month1 == IF end THEN month0 + len ELSE month0
             month  == IF end /\ month1 > 12 THEN 1 ELSE month1
             year1  == IF end /\ month1 > 12 THEN year + 1 ELSE year
         IN  IF end THEN Date(year1, month, 1) - 1 ELSE Date(year1, month, 1)
    ELSE LET intervals_per_month == num_intervals \div 12
             len    == interval_length(num_intervals)
             month0 == ((interval - 1) \div intervals_per_month) + 1
             in_month_interval == ((interval - 1) % intervals_per_month) + 1
             day0   == (in_month_interval - 1) * len + 1
         IN  IF end
             THEN Date(year, month0, day0 + len - 1)
             ELSE Date(year, month0, day0)

get_date_from_interval(interval, year, num_intervals, end) ==
    IF num_intervals \in MonthCadences
    THEN LET len    == interval_length(num_intervals)
             month0 == (interval - 1) * len + 1
             month1 == IF end THEN month0 + len ELSE month0
             month  == IF end /\ month1 > 12 THEN 1 ELSE month1
             year1  == IF end /\ month1 > 12 THEN year + 1 ELSE year
         IN  IF end THEN Date(year1, month, 1) - 1 ELSE Date(year1, month, 1)
    ELSE LET intervals_per_month == num_intervals \div 12
             len    == interval_length(num_intervals)
             month0 == ((interval - 1) \div intervals_per_month) + 1
             in_month_interval == ((interval - 1) % intervals_per_month) + 1
             day0   == (in_month_interval - 1) * len + 1
         IN  IF end
             THEN IF in_month_interval = intervals_per_month
                  THEN IF month0 + 1 > 12
                       THEN Date(year + 1, 1, 1) - 1
                       ELSE Date(year, month0 + 1, 1) - 1
                  ELSE Date(year, month0, day0 + len - 1)
             ELSE Date(year, month0, day0)

(***************************************************************************)
(* dryes/utils/time.py: get_interval_date, get_window                      *)
(***************************************************************************)
get_interval_date(date, num_intervals, end) ==
    get_date_from_interval(get_interval(date, num_intervals), YearOf(date),
                           num_intervals, end)

\* the unit of a window, a string, as the sequence of its characters
UnitDays   == <<"d", "a", "y", "s">>
UnitWeeks  == <<"w", "e", "e", "k", "s">>
UnitMonths == <<"m", "o", "n", "t", "h", "s">>
UnitYears  == <<"y", "e", "a", "r", "s">>
UnitDekad  == <<"d", "e", "k", "a", "d">>
UnitDekads == <<"d", "e", "k", "a", "d", "s">>
UnitHours  == <<"h", "o", "u", "r", "s">>

\* if unit[-1] != 's': unit += 's'
plural(unit) == IF unit[Len(unit)] # "s" THEN Append(unit, "s") ELSE unit

\* time - relativedelta(months = months): the same day of the month that
\* many months earlier, or the last day of that month when it is shorter
minus_months(time, months) ==
    LET total == YearOf(time) * 12 + (MonthOf(time) - 1) - months
        year  == total \div 12
        month == (total % 12) + 1
    IN  Date(year, month, Min2(DayOf(time), DaysInMonth(year, month)))

\* time - relativedelta(unit = size) for the units of relativedelta
minus_relativedelta(time, size, unit) ==
    IF unit = UnitDays THEN time - size
    ELSE IF unit = UnitWeeks THEN time - 7 * size
    ELSE IF unit = UnitMonths THEN minus_months(time, size)
    ELSE minus_months(time, 12 * size)

\* for i in range(size): tmp_time = get_interval_date(tmp_time, 36) - 1 day
RECURSIVE dekads_back(_, _)
dekads_back(tmp_time, size) ==
    IF size <= 0 THEN tmp_time
    ELSE dekads_back(get_interval_date(tmp_time, 36, FALSE) - 1, size - 1)

\* a plausible slip: a dekad is always taken to be ten days
ten_days_start(time, size) == time - 10 * size

\* the start of a window of dekads
dekads_start(time, size) ==
    LET time_end == time - 1
    IN  IF time_end = get_interval_date(time_end, 36, TRUE)
        THEN dekads_back(time_end, size) + 1
        ELSE time - 10 * size

\* the error get_window raises, "" when it returns
get_window_error(unit) ==
    IF Len(unit) = 0 THEN "IndexError"
    ELSE IF plural(unit) \in {UnitMonths, UnitYears, UnitDays, UnitWeeks, UnitDekads}
    THEN ""
    ELSE "ValueError"

\* the TimeRange get_window returns
get_window(time, size, unit) ==
    [start |-> IF plural(unit) \in {UnitMonths, UnitYears, UnitDays, UnitWeeks}
               THEN minus_relativedelta(time, size, plural(unit))
               ELSE dekads_start(time, size),
     end   |-> time - 1]

(***************************************************************************)
(* dryes/utils/time.py: create_timesteps, ntimesteps_to_md                 *)
(***************************************************************************)
ValidCadences == {1, 2, 3, 4, 6, 12, 24, 36, 365}

\* the months and the days of the month of the timesteps of a cadence
CadenceMonths(n) ==
    IF n = 1 THEN <<1>>
    ELSE IF n = 2 THEN <<1, 7>>
    ELSE IF n = 3 THEN <<1, 5, 9>>
    ELSE IF n = 4 THEN <<1, 4, 7, 10>>
    ELSE IF n = 6 THEN <<1, 3, 5, 7, 9, 11>>
    ELSE <<1, 2, 3, 4, 5, 6, 7, 8, 9, 10, 11, 12>>

CadenceDays(n) ==
    IF n = 24 THEN <<1, 16>> ELSE IF n = 36 THEN <<1, 11, 21>> ELSE <<1>>

\* [datetime(year, month, day) for month in ... for day in ...] of one year
YearTimesteps(year, n) ==
    LET ms == CadenceMonths(n)
        ds == CadenceDays(n)
    IN  [k \in 1..(Len(ms) * Len(ds)) |->
            Date(year, ms[((k - 1) \div Len(ds)) + 1], ds[((k - 1) % Len(ds)) + 1])]

RECURSIVE FixedTimesteps(_, _, _)
FixedTimesteps(year, end_year, n) ==
    IF year > end_year THEN <<>>
    ELSE YearTimesteps(year, n) \o FixedTimesteps(year + 1, end_year, n)

\* a plausible slip: the daily cadence keeps the 29 February
DailyTimestepsWithLeapDay(new_timestep, time_end) ==
    IF new_timestep < time_end
    THEN [k \in 1..(time_end - new_timestep) |-> new_timestep + k]
    ELSE <<>>

\* the while loop of the daily cadence: every day after new_timestep up to
\* time_end that is not a 29 February
DailyTimesteps(new_timestep, time_end) ==
    IF new_timestep < time_end
    THEN SelectSeq([k \in 1..(time_end - new_timestep) |-> new_timestep + k],
                   LAMBDA next : ~(MonthOf(next) = 2 /\ DayOf(next) = 29))
    ELSE <<>>

\* no cadence is refused
accepts_any_cadence(n_intervals) == FALSE

\* line 39: any other cadence raises ValueError
create_timesteps_raises(n_intervals) == n_intervals \notin ValidCadences

\* the timesteps of the years of time_start and time_end, without the
\* selection of line 66
create_timesteps_unfiltered(time_start, time_end, n_intervals) ==
    IF n_intervals = 365
    THEN <<time_start>> \o DailyTimesteps(time_start, time_end)
    ELSE FixedTimesteps(YearOf(time_start), YearOf(time_end), n_intervals)

\* create_timesteps for a valid cadence
create_timesteps(time_start, time_end, n_intervals) ==
    LET timesteps ==
            IF n_intervals = 365
            THEN <<time_start>> \o DailyTimesteps(time_start, time_end)
            ELSE FixedTimesteps(YearOf(time_start), YearOf(time_end), n_intervals)
    IN  SelectSeq(timesteps, LAMBDA time : time >= time_start /\ time <= time_end)

\* the (month, day) positions of a cadence: those of the timesteps of 1987
ntimesteps_to_md(timesteps_per_year) ==
    LET timesteps == create_timesteps(Date(1987, 1, 1), Date(1987, 12, 31), timesteps_per_year)
    IN  [k \in 1..Len(timesteps) |-> <<MonthOf(timesteps[k]), DayOf(timesteps[k])>>]

(***************************************************************************)
(* Sequences and sets of dates.                                            *)
(***************************************************************************)
Range(seq) == {seq[k] : k \in 1..Len(seq)}

SetMin(S) == CHOOSE x \in S : \A y \in S : x <= y

SetMax(S) == 0 - SetMin({0 - x : x \in S})

\* the elements of a set of dates, the latest first
DescendingSeq(S) ==
    IF S = {} THEN <<>>
    ELSE LET lo == SetMin(S)
             hi == SetMax(S)
         IN  SelectSeq([k \in 1..(hi - lo + 1) |-> hi - k + 1], LAMBDA x : x \in S)

\* list(S) followed by .sort(), for a set of dates
SortedSeq(S) ==
    IF S = {} THEN <<>>
    ELSE LET lo == SetMin(S)
             hi == SetMax(S)
         IN  SelectSeq([k \in 1..(hi - lo + 1) |-> lo + k - 1], LAMBDA x : x \in S)

\* the position of the first occurrence of x in seq (0 when there is none)
IndexOf(seq, x) ==
    IF x \in Range(seq) THEN CHOOSE k \in 1..Len(seq) : seq[k] = x /\ \A j \in 1..(k - 1) : seq[j] # x
    ELSE 0

(***************************************************************************)
(* Tags: a mapping from tag names to values (dict).                        *)
(***************************************************************************)
EmptyTags == [k \in {} |-> ""]

Tag(key, value) == [k \in {key} |-> value]

\* tags.update(more): the keys of more are added or overwritten
UpdateTags(tags, more) ==
    [k \in (DOMAIN tags) \cup (DOMAIN more) |-> IF k \in DOMAIN more THEN more[k] ELSE tags[k]]

HistoryTags(history) ==
    UpdateTags(Tag("history_start", history[1]), Tag("history_end", history[2]))

(***************************************************************************)
(* Configurations.  agg_fn is the sequence of the entries of               *)
(* index_options['agg_fn'] in insertion order, each a name and the shape   *)
(* of its value (a callable, a tuple or a list of a number of callables, a *)
(* string, a number); options is the sequence of the other option entries, *)
(* a dict-valued one (isdict) with its labels and their values, a scalar   *)
(* one with its value; post_fn is the sequence of the names of             *)
(* index_options['post_fn']; io is the set of the keys of io_options.      *)
(***************************************************************************)
\* bounds: the number of aggregations, of post-processing functions, and of
\* dict-valued options of a configuration
MaxAgg == 2

MaxPost == 1

MaxPermutable == 1

AggNames == <<"sum", "mean", "max", "min">>

PostNames == <<"pp1", "pp2", "pp3">>

OptionKeys == <<"A", "B", "C">>

OptionLabels == << <<"x", "y">>, <<"p", "q">>, <<"u", "v">> >>

OptionValues == << <<1, 2>>, <<10, 20>>, <<100, 200>> >>

FixedOption == [key |-> "fixed", isdict |-> FALSE, labels |-> <<>>, values |-> <<7>>]

PermutableOption(k) ==
    [key |-> OptionKeys[k], isdict |-> TRUE, labels |-> OptionLabels[k], values |-> OptionValues[k]]

\* the value of an agg_fn entry: a function, or a tuple of n functions
CallableFn == [kind |-> "callable", len |-> 0]

TupleFn(n) == [kind |-> "tuple", len |-> n]

\* the values the pipeline is configured with: compute_fn, or
\* (compute_fn, post_fn)
PipelineAggFns == {CallableFn, TupleFn(2)}

AggConfigs ==
    UNION {{[k \in 1..n |-> [name |-> AggNames[k], fn |-> f[k]]] : f \in [1..n -> PipelineAggFns]} : n \in 0..MaxAgg}

OptionConfigs ==
    UNION {{[k \in 1..n |-> PermutableOption(k)],
            [k \in 1..n |-> PermutableOption(k)] \o <<FixedOption>>} : n \in 0..MaxPermutable}

PostConfigs == {[k \in 1..n |-> PostNames[k]] : n \in 0..MaxPost}

\* self.parameters of the concrete index
parameters == <<"par1">>

\* io_options with every handle the index needs
FullIo == {"data_raw", "data", "index"} \cup {parameters[k] : k \in 1..Len(parameters)}

\* the io_options the pipeline is constructed with: every handle, or every
\* handle but the index, but the parameter, but the raw data
PipelineIo == {FullIo \ absent : absent \in {{}, {"index"}, {parameters[1]}, {"data_raw"}}}

\* the pipeline is run by a class that defines no iscontinuous attribute
Configs ==
    [agg_fn : AggConfigs, options : OptionConfigs, post_fn : PostConfigs, io : PipelineIo,
     iscontinuous : {"unset"}]

(***************************************************************************)
(* DRYESIndex._make_time_aggregation                                       *)
(***************************************************************************)
\* TimeAggregation(): aggfun the names in registration order, postaggfun the
\* names registered with a post-aggregation function
NewTimeAggregation == [aggfun |-> <<>>, postaggfun |-> {}]

\* time_agg.add_aggregation(name, compute_fn) and
\* time_agg.add_aggregation(name, compute_fn, post_fn)
add_aggregation(time_agg, name, with_post_fn) ==
    [aggfun     |-> Append(time_agg.aggfun, name),
     postaggfun |-> IF with_post_fn THEN time_agg.postaggfun \cup {name}
                    ELSE time_agg.postaggfun]

\* lines 55-66, the entries from the k-th on: a callable and a sequence of
\* one element are registered without a post-aggregation function; any
\* other sequence is registered with its elements 0 and 1 (IndexError for
\* the empty one) and sets iscontinuous; anything else raises ValueError
RECURSIVE add_aggregations(_, _, _)
add_aggregations(agg_fn, k, acc) ==
    IF k > Len(agg_fn) \/ acc.error # "" THEN acc
    ELSE LET agg_name == agg_fn[k].name
             fn == agg_fn[k].fn
         IN  IF fn.kind = "callable"
             THEN add_aggregations(agg_fn, k + 1,
                    [acc EXCEPT !.time_agg = add_aggregation(@, agg_name, FALSE)])
             ELSE IF fn.kind \in {"tuple", "list"}
             THEN IF fn.len = 1
                  THEN add_aggregations(agg_fn, k + 1,
                         [acc EXCEPT !.time_agg = add_aggregation(@, agg_name, FALSE)])
                  ELSE IF fn.len = 0
                  THEN [acc EXCEPT !.error = "IndexError", !.at = k]
                  ELSE add_aggregations(agg_fn, k + 1,
                         [acc EXCEPT !.time_agg = add_aggregation(@, agg_name, TRUE),
                                     !.iscontinuous = TRUE])
             ELSE [acc EXCEPT !.error = "ValueError", !.at = k]

\* the iscontinuous attribute the class of the index defines before
\* _make_time_aggregation runs: none, False or True
ClassIscontinuous == {"unset", "False", "True"}

\* _make_time_aggregation: the local registry, the flag, and the error
\* raised (with the position of the entry it is raised for), if any;
\* iscontinuous is set to False only when the instance has no such
\* attribute (lines 46-47), an attribute of the class is kept
time_aggregation_of(agg_fn, class_iscontinuous) ==
    add_aggregations(agg_fn, 1,
        [time_agg |-> NewTimeAggregation,
         iscontinuous |-> IF class_iscontinuous = "unset" THEN FALSE
                          ELSE class_iscontinuous = "True",
         error |-> "", at |-> 0])

\* the registry and the error depend on agg_fn alone
make_time_aggregation(agg_fn) == time_aggregation_of(agg_fn, "unset").time_agg

\* a flag that the registration of a post-aggregation function does not set
class_iscontinuous_only(agg_fn, class_iscontinuous) == class_iscontinuous = "True"

make_iscontinuous(agg_fn, class_iscontinuous) ==
    time_aggregation_of(agg_fn, class_iscontinuous).iscontinuous

make_time_aggregation_raises(agg_fn) == time_aggregation_of(agg_fn, "unset").error

(***************************************************************************)
(* DRYESIndex._get_cases and options_to_cases                              *)
(***************************************************************************)
agg_cases(aggfun) ==
    [k \in 1..Len(aggfun) |->
        [id |-> k - 1, name |-> aggfun[k], tags |-> Tag("agg_fn", aggfun[k])]]

RECURSIVE ProductFrom(_, _)
\* the number of combinations of the labels of options[j..]
ProductFrom(options, j) ==
    IF j > Len(options) THEN 1
    ELSE (IF options[j].isdict THEN Len(options[j].labels) ELSE 1) * ProductFrom(options, j + 1)

\* a product whose first option varies fastest
LabelAtFirstFastest(options, i, j) ==
    ((i \div ProductFrom(SubSeq(options, 1, j - 1), 1)) % Len(options[j].labels)) + 1

\* itertools.product: the label position of option j in permutation i
\* (i from 0), the first option varying slowest
LabelAt(options, i, j) ==
    ((i \div ProductFrom(options, j + 1)) % Len(options[j].labels)) + 1

RECURSIVE Join(_)
\* ','.join(labels)
Join(labels) ==
    IF Len(labels) = 0 THEN ""
    ELSE IF Len(labels) = 1 THEN labels[1]
    ELSE labels[1] \o "," \o Join(Tail(labels))

OptionIndex(options, key) == CHOOSE j \in 1..Len(options) : options[j].key = key

\* the key of the tag of an option: 'options.' + key
TagKey(key) == "options." \o key

options_to_cases(options) ==
    LET keys == {options[j].key : j \in 1..Len(options)}
        dicts == SelectSeq([j \in 1..Len(options) |-> j], LAMBDA j : options[j].isdict)
    IN  [n \in 1..ProductFrom(options, 1) |->
            [id   |-> n - 1,
             name |-> Join([d \in 1..Len(dicts) |->
                            options[dicts[d]].labels[LabelAt(options, n - 1, dicts[d])]]),
             tags |-> [tk \in {TagKey(k) : k \in keys} |->
                        LET j == CHOOSE j \in 1..Len(options) : TagKey(options[j].key) = tk
                        IN  IF options[j].isdict
                            THEN options[j].labels[LabelAt(options, n - 1, j)]
                            ELSE ""],
             options |-> [k \in keys |->
                        LET j == OptionIndex(options, k)
                        IN  IF options[j].isdict
                            THEN options[j].values[LabelAt(options, n - 1, j)]
                            ELSE options[j].values[1]]]]

\* the post cases take their id from the variable i of the loop over the
\* aggregations, which is unbound when there is no aggregation (NameError)
post_cases(aggfun, post_fn) ==
    [k \in 1..Len(post_fn) |->
        [id |-> Len(aggfun) - 1, name |-> post_fn[k], tags |-> Tag("post_fn", post_fn[k])]]

get_cases_raises(config) ==
    Len(make_time_aggregation(config.agg_fn).aggfun) = 0 /\ Len(config.post_fn) > 0

get_cases(config) ==
    LET aggfun == make_time_aggregation(config.agg_fn).aggfun
    IN  [agg  |-> agg_cases(aggfun),
         opt  |-> options_to_cases(config.options),
         post |-> post_cases(aggfun, config.post_fn)]

(***************************************************************************)
(* DRYESIndex._check_io_options and DRYESIndex.__init__                    *)
(***************************************************************************)
\* lines 115-122: the handles of the input data
data_options_raise(config) ==
    IF Len(get_cases(config).agg) > 0
    THEN "data_raw" \notin config.io \/ "data" \notin config.io
    ELSE "data" \notin config.io /\ "data_raw" \notin config.io

\* lines 136-138: the position of the first parameter without a handle, or 0
FirstMissingParameter(config) ==
    LET missing == {k \in 1..Len(parameters) : parameters[k] \notin config.io}
    IN  IF missing = {} THEN 0
        ELSE CHOOSE k \in missing : \A j \in missing : k <= j

check_io_options_raises(config) ==
    \/ data_options_raise(config)
    \/ FirstMissingParameter(config) # 0
    \/ "index" \notin config.io

\* a call of get_template or set_template on a handle, as an event of the log
TemplateCall(op, h) ==
    [op |-> op, h |-> h, tags |-> EmptyTags, time |-> 0, value |-> 0, arg |-> <<>>]

\* the calls _check_io_options makes on the handles, in order: get_template
\* on the raw data, then set_template on the data, on the parameters up to
\* the first one without a handle, and on the index
check_io_options_calls(config) ==
    LET kmiss == FirstMissingParameter(config)
        npar == IF kmiss = 0 THEN Len(parameters) ELSE kmiss - 1
    IN  IF data_options_raise(config) THEN <<>>
        ELSE <<TemplateCall("get_template", "data_raw"),
               TemplateCall("set_template", "data")>> \o
             [k \in 1..npar |-> TemplateCall("set_template", parameters[k])] \o
             (IF kmiss = 0 /\ "index" \in config.io
              THEN <<TemplateCall("set_template", "index")>> ELSE <<>>)

\* the error __init__ raises, "" when it returns: _check_index_options,
\* then _get_cases, then _check_io_options
init_error(config) ==
    IF make_time_aggregation_raises(config.agg_fn) # ""
    THEN make_time_aggregation_raises(config.agg_fn)
    ELSE IF get_cases_raises(config) THEN "UnboundLocalError"
    ELSE IF check_io_options_raises(config) THEN "ValueError"
    ELSE ""

\* the calls __init__ makes on the handles
init_calls(config) ==
    IF make_time_aggregation_raises(config.agg_fn) # "" \/ get_cases_raises(config)
    THEN <<>>
    ELSE check_io_options_calls(config)

(***************************************************************************)
(* The persisted store behind the IOHandler objects.  An entry is a value  *)
(* persisted by the handle of a name (data, a parameter, index) under a    *)
(* tag scope at a time; the value is named by the time it was computed for.*)
(***************************************************************************)
\* handle.update(**tags), and the scope of a call handle.f(.., **tags)
Scope(handle_tags, tags) == UpdateTags(handle_tags, tags)

get_times(st, h, scope, lo, hi) ==
    {e.time : e \in {x \in st : x.h = h /\ x.tags = scope /\ lo <= x.time /\ x.time <= hi}}

HasData(st, h, scope, time) == \E e \in st : e.h = h /\ e.tags = scope /\ e.time = time

write_data(st, h, scope, time, value) ==
    {e \in st : ~(e.h = h /\ e.tags = scope /\ e.time = time)}
        \cup {[h |-> h, tags |-> scope, time |-> time, value |-> value]}

(***************************************************************************)
(* The resolution of the timesteps that remain to be computed.             *)
(***************************************************************************)
\* a resolution that takes every timestep as soon as one is not available
ts_all_when_any(timesteps, available_ts) ==
    IF Range(timesteps) \subseteq available_ts THEN <<>> ELSE timesteps

\* [time for time in timesteps if time not in available_ts]
ts_not_available(timesteps, available_ts) ==
    SelectSeq(timesteps, LAMBDA time : time \notin available_ts)

\* the number of leading timesteps that are not available
RECURSIVE LeadingMissing(_, _, _)
LeadingMissing(timesteps, available_ts, i) ==
    IF i > Len(timesteps) \/ timesteps[i] \in available_ts THEN i - 1
    ELSE LeadingMissing(timesteps, available_ts, i + 1)

\* make_input_data, an aggregation with a post-aggregation function:
\*     while (timesteps[i] not in available_ts) and i < len(timesteps)
\* appends the leading timesteps that are not available and stops at the
\* first available one; when none is available before the end of the list,
\* timesteps[len(timesteps)] raises IndexError
ts_in_order_raises(timesteps, available_ts) ==
    LeadingMissing(timesteps, available_ts, 1) = Len(timesteps)

ts_in_order(timesteps, available_ts) ==
    SubSeq(timesteps, 1, LeadingMissing(timesteps, available_ts, 1))

(***************************************************************************)
(* The inputs of compute, and the stores compute may find.                 *)
(***************************************************************************)
\* bound: the number of compute invocations of a behaviour
MaxRuns == 2

\* the cadences compute is invoked with
PipelineCadences == {4}

\* current: the first quarter of 2020, or its first three quarters
CurrentRanges ==
    {<<Date(2020, 1, 1), Date(2020, 3, 31)>>, <<Date(2020, 1, 1), Date(2020, 9, 30)>>}

\* reference: the tuple (1 Jan 2019, 31 Dec 2019), or the callable that maps
\* a time to the year that ends the day before it
References ==
    {[kind |-> "tuple", start |-> Date(2019, 1, 1), end |-> Date(2019, 12, 31)],
     [kind |-> "callable", start |-> 0, end |-> 0]}

reference_fn(reference, time) ==
    IF reference.kind = "tuple" THEN <<reference.start, reference.end>>
    ELSE <<Date(YearOf(time) - 1, MonthOf(time), DayOf(time)), time - 1>>

\* the behaviour of the injected functions during one invocation of compute:
\* they all return, or the n-th call of one of them (the aggregation
\* function, calc_parameters, calc_index, the post-processing function)
\* raises
NoFail == [op |-> "none", n |-> 0]

Failures == [op : {"compute_fn", "calc_parameters", "calc_index", "post_fn"}, n : 1..2]

\* the arguments of compute; with the callable, the first quarter alone has
\* the reference period of the tuple, and is left out
ComputeArgs ==
    {a \in [current : CurrentRanges, reference : References,
            timesteps_per_year : PipelineCadences, fail : {NoFail}] :
        a.reference.kind = "callable" => a.current[2] = Date(2020, 9, 30)}

\* the arguments of compute with 5 timesteps per year, which is not a cadence
InvalidCadenceArgs ==
    [current |-> <<Date(2020, 1, 1), Date(2020, 3, 31)>>,
     reference |-> [kind |-> "tuple", start |-> Date(2019, 1, 1), end |-> Date(2019, 12, 31)],
     timesteps_per_year |-> 5, fail |-> NoFail]

\* the quarterly timesteps t1..t8 of 2019 and 2020
QuarterTimesteps == create_timesteps(Date(2019, 1, 1), Date(2020, 12, 31), 4)

\* the aggregated data a store holds before the first compute, for every
\* aggregation name: nothing, t1 t2 t4, t3 t4, or every quarter
SeedPositions == {{}, {1, 2, 4}, {3, 4}, {1, 2, 3, 4, 5, 6, 7, 8}}

SeedStore(config, positions) ==
    {[h |-> "data", tags |-> Tag("agg_fn", config.agg_fn[k].name),
      time |-> QuarterTimesteps[q], value |-> QuarterTimesteps[q]] :
        k \in 1..Len(config.agg_fn), q \in positions}

(***************************************************************************)
(* State.                                                                  *)
(*   cal     one run of the calendar operations on a date and a cadence    *)
(*   config  the index_options the index object was constructed from       *)
(*   self    the fields of the DRYESIndex object: time_aggregation,        *)
(*           iscontinuous, cases, and the tags of the handles              *)
(*           self._parameters[par] (they are updated in place)             *)
(*   store   the persisted store                                           *)
(*   pc      the position of compute                                       *)
(*   args    the arguments of the compute invocation in progress           *)
(*   loc     the local variables of compute and of the make_* methods      *)
(*   log     the calls made on the store handles and on the injected       *)
(*           functions since compute was invoked, in order                 *)
(*   runs    the number of compute invocations so far                      *)
(*   prev    the arguments and the outcome of the previous invocation on   *)
(*           this object                                                   *)
(*   other   a second invocation of compute, on an object of its own over  *)
(*           the same store, while it does not run: its self, pc, args,    *)
(*           loc and log                                                   *)
(***************************************************************************)
VARIABLES cal, config, self, store, pc, args, loc, log, runs, prev, other

vars == <<cal, config, self, store, pc, args, loc, log, runs, prev, other>>

pipeline_vars == <<config, self, store, pc, args, loc, log, runs, prev, other>>

CalIdle == [pc |-> "idle", date |-> 0, n |-> 0, interval |-> 0, first |-> 0, last |-> 0]

NoArgs == [current |-> <<0, 0>>, reference |-> [kind |-> "none", start |-> 0, end |-> 0],
           timesteps_per_year |-> 0, fail |-> NoFail]

NoPrev == [valid |-> FALSE, args |-> NoArgs, returned |-> FALSE]

NoLocals ==
    [data_timesteps |-> <<>>, timesteps_to_compute |-> <<>>, timesteps_to_iterate |-> <<>>,
     agg_data |-> <<>>, i |-> 0, timesteps |-> <<>>, reference_periods |-> <<>>,
     this_ts_todo |-> <<>>, r |-> 0, a |-> 0, o |-> 0, p |-> 0,
     index_tags |-> EmptyTags, ppindex_tags |-> EmptyTags, ts_done |-> {}, time_agg |-> NewTimeAggregation, error |-> ""]

NoConfig ==
    [agg_fn |-> <<>>, options |-> <<>>, post_fn |-> <<>>, io |-> FullIo, iscontinuous |-> "unset"]

\* the object right after __init__(index_options, io_options)
NewObject(cfg) ==
    [time_aggregation |-> make_time_aggregation(cfg.agg_fn),
     iscontinuous     |-> make_iscontinuous(cfg.agg_fn, cfg.iscontinuous),
     cases            |-> get_cases(cfg),
     parameters_tags  |-> [k \in 1..Len(parameters) |-> EmptyTags]]

\* no second invocation
NoOther == [self |-> NewObject(NoConfig), pc |-> "none", args |-> NoArgs, loc |-> NoLocals, log |-> <<>>]

InitCalendar ==
    /\ \E d \in AllDates, n \in IntervalCadences :
        cal = [pc |-> "start", date |-> d, n |-> n, interval |-> 0, first |-> 0, last |-> 0]
    /\ config = NoConfig
    /\ self = NewObject(NoConfig)
    /\ store = {}
    /\ pc = "none"
    /\ args = NoArgs
    /\ loc = NoLocals
    /\ log = <<>>
    /\ runs = 0
    /\ prev = NoPrev
    /\ other = NoOther

GetInterval ==
    /\ cal.pc = "start"
    /\ cal' = [cal EXCEPT !.pc = "interval",
                          !.interval = get_interval(cal.date, cal.n)]
    /\ UNCHANGED pipeline_vars

GetDateFromInterval ==
    /\ cal.pc = "interval"
    /\ cal' = [cal EXCEPT !.pc = "done",
                          !.first = get_date_from_interval(cal.interval, YearOf(cal.date), cal.n, FALSE),
                          !.last  = get_date_from_interval(cal.interval, YearOf(cal.date), cal.n, TRUE)]
    /\ UNCHANGED pipeline_vars

NextCalendar == GetInterval \/ GetDateFromInterval

SpecCalendar == InitCalendar /\ [][NextCalendar]_vars

(***************************************************************************)
(* get_window applied to a time, a size and a unit.  cal holds the         *)
(* arguments, then the range returned or the error raised.                 *)
(***************************************************************************)
GetWindowUnits ==
    {UnitDays, UnitWeeks, UnitMonths, UnitYears, UnitDekad, UnitDekads,
     UnitHours, <<>>}

InitGetWindow ==
    /\ \E time \in AllDates, size \in 0..MaxWindow, unit \in GetWindowUnits :
        cal = [pc |-> "get_window", time |-> time, size |-> size, unit |-> unit,
               start |-> 0, end |-> 0, error |-> ""]
    /\ config = NoConfig
    /\ self = NewObject(NoConfig)
    /\ store = {}
    /\ pc = "none"
    /\ args = NoArgs
    /\ loc = NoLocals
    /\ log = <<>>
    /\ runs = 0
    /\ prev = NoPrev
    /\ other = NoOther

GetWindow ==
    /\ cal.pc = "get_window"
    /\ LET error == get_window_error(cal.unit)
       IN  IF error # ""
           THEN cal' = [cal EXCEPT !.pc = "raised", !.error = error]
           ELSE LET window == get_window(cal.time, cal.size, cal.unit)
                IN  cal' = [cal EXCEPT !.pc = "returned",
                                       !.start = window.start,
                                       !.end = window.end]
    /\ UNCHANGED pipeline_vars

NextGetWindow == GetWindow

SpecGetWindow == InitGetWindow /\ [][NextGetWindow]_vars

(***************************************************************************)
(* create_timesteps applied to a start, an end and a cadence.  cal holds   *)
(* the arguments, then the list returned or the error raised.              *)
(***************************************************************************)
\* the starts and ends: the first and the 29th of every month, the 28th of
\* February and the last day of the year
TimestepEndpoints ==
    {d \in AllDates : \/ DayOf(d) \in {1, 29}
                      \/ (MonthOf(d) = 2 /\ DayOf(d) = 28)
                      \/ (MonthOf(d) = 12 /\ DayOf(d) = 31)}

\* the cadences: the valid ones, and three that are not
TimestepCadences == ValidCadences \cup {0, 5, 48}

InitTimesteps ==
    /\ \E start \in TimestepEndpoints, end \in TimestepEndpoints, n \in TimestepCadences :
        cal = [pc |-> "create_timesteps", time_start |-> start, time_end |-> end,
               n_intervals |-> n, timesteps |-> <<>>, error |-> "", md |-> <<>>]
    /\ config = NoConfig
    /\ self = NewObject(NoConfig)
    /\ store = {}
    /\ pc = "none"
    /\ args = NoArgs
    /\ loc = NoLocals
    /\ log = <<>>
    /\ runs = 0
    /\ prev = NoPrev
    /\ other = NoOther

CreateTimesteps ==
    /\ cal.pc = "create_timesteps"
    /\ cal' = IF create_timesteps_raises(cal.n_intervals)
              THEN [cal EXCEPT !.pc = "raised", !.error = "ValueError"]
              ELSE [cal EXCEPT !.pc = "returned",
                               !.timesteps = create_timesteps(cal.time_start, cal.time_end,
                                                              cal.n_intervals)]
    /\ UNCHANGED pipeline_vars

\* ntimesteps_to_md applied to the cadence create_timesteps has accepted
NtimestepsToMd ==
    /\ cal.pc = "returned"
    /\ cal' = [cal EXCEPT !.pc = "md", !.md = ntimesteps_to_md(cal.n_intervals)]
    /\ UNCHANGED pipeline_vars

NextTimesteps == CreateTimesteps \/ NtimestepsToMd

SpecTimesteps == InitTimesteps /\ [][NextTimesteps]_vars

(***************************************************************************)
(* DRYESIndex.__init__ applied to an index_options and an io_options.      *)
(***************************************************************************)
\* the values of an agg_fn entry: a function, a tuple of 0 to 3 functions, a
\* list of two, a string, a number
SetupAggFns ==
    {CallableFn, TupleFn(0), TupleFn(1), TupleFn(2), TupleFn(3),
     [kind |-> "list", len |-> 2], [kind |-> "str", len |-> 0], [kind |-> "int", len |-> 0]}

SetupAggConfigs ==
    UNION {{[k \in 1..n |-> [name |-> AggNames[k], fn |-> f[k]]] : f \in [1..n -> SetupAggFns]} : n \in 0..MaxAgg}

\* the options: the dict-valued ones and the scalar one, any of them, in
\* any order
SetupOptionPool == {PermutableOption(k) : k \in 1..(MaxPermutable + 1)} \cup {FixedOption}

SetupOptionConfigs ==
    {options \in UNION {[1..n -> SetupOptionPool] : n \in 0..Cardinality(SetupOptionPool)} :
        \A j, k \in 1..Len(options) : j # k => options[j] # options[k]}

SetupPostConfigs == {[k \in 1..n |-> PostNames[k]] : n \in 0..(MaxPost + 1)}

\* io_options: every handle, or every handle but some
SetupIo ==
    {FullIo \ absent : absent \in {{}, {"index"}, {parameters[1]}, {"data_raw"}, {"data", "data_raw"}}}

SetupConfigs ==
    [agg_fn : SetupAggConfigs, options : SetupOptionConfigs, post_fn : SetupPostConfigs, io : SetupIo,
     iscontinuous : ClassIscontinuous]

InitSetup ==
    /\ cal = CalIdle
    /\ config \in SetupConfigs
    /\ self = NewObject(NoConfig)
    /\ store = {}
    /\ pc = "new"
    /\ args = NoArgs
    /\ loc = NoLocals
    /\ log = <<>>
    /\ runs = 0
    /\ prev = NoPrev
    /\ other = NoOther

\* DRYESIndex(index_options, io_options)
InitObject ==
    /\ pc = "new"
    /\ LET error == init_error(config)
       IN  /\ pc' = IF error = "" THEN "idle" ELSE "init_raised"
           /\ self' = IF error = "" THEN NewObject(config) ELSE self
           /\ loc' = [NoLocals EXCEPT !.error = error,
                                      !.time_agg = make_time_aggregation(config.agg_fn)]
    /\ log' = init_calls(config)
    /\ UNCHANGED <<cal, other, config, store, args, runs, prev>>

NextSetup == InitObject

SpecSetup == InitSetup /\ [][NextSetup]_vars

(***************************************************************************)
(* The calls compute makes, as events of the log.  A write_data event      *)
(* carries the scope, the time and the value written; the store after a    *)
(* step is the store before it with the write_data events of the step      *)
(* applied in order.  A get_times event carries the scope and, as arg, the *)
(* set of times the call returned.  A call event is the call of one of the *)
(* make_* methods by compute.                                              *)
(***************************************************************************)
Ev(op, h, tags, time, value, arg) ==
    [op |-> op, h |-> h, tags |-> tags, time |-> time, value |-> value, arg |-> arg]

Call(method, arg) == Ev("call", method, EmptyTags, 0, 0, arg)

RECURSIVE Flatten(_)
Flatten(seqs) == IF Len(seqs) = 0 THEN <<>> ELSE Head(seqs) \o Flatten(Tail(seqs))

RECURSIVE ApplyWrites(_, _)
ApplyWrites(st, events) ==
    IF Len(events) = 0 THEN st
    ELSE LET e == Head(events)
         IN  ApplyWrites(IF e.op = "write_data"
                         THEN write_data(st, e.h, e.tags, e.time, e.value)
                         ELSE st,
                         Tail(events))

\* the distinct elements of a sequence, in the order of their first
\* occurrence (the insertion order of the keys of a dict)
FirstOccurrences(seq) ==
    LET firsts == SelectSeq([k \in 1..Len(seq) |-> k],
                            LAMBDA k : \A j \in 1..(k - 1) : seq[j] # seq[k])
    IN  [k \in 1..Len(firsts) |-> seq[firsts[k]]]

Raise(error) ==
    /\ pc' = "raised"
    /\ loc' = [loc EXCEPT !.error = error]

\* the number of calls of an injected function among events
CallsOf(events, op) == Cardinality({k \in 1..Len(events) : events[k].op = op})

\* the position, among the events a step is about to add to the log, of the
\* call that raises (0 when none does): the call of args.fail.op that is the
\* args.fail.n-th of the invocation
FailureAt(events) ==
    IF args.fail = NoFail THEN 0
    ELSE LET failing == {k \in 1..Len(events) :
                            /\ events[k].op = args.fail.op
                            /\ CallsOf(log, args.fail.op)
                                    + CallsOf(SubSeq(events, 1, k), args.fail.op) = args.fail.n}
         IN  IF failing = {} THEN 0 ELSE CHOOSE k \in failing : TRUE

\* a failure that does not stop the step
through_failure(events) == events

\* the exception of the call that raises propagates: nothing of the step
\* happens after it
UpToFailure(events) ==
    IF FailureAt(events) = 0 THEN events ELSE SubSeq(events, 1, FailureAt(events))

(***************************************************************************)
(* DRYESIndex.__init__ and DRYESIndex.compute                              *)
(***************************************************************************)
\* the configurations the pipeline is explored with: no option at all, or
\* the dict-valued options together with the scalar one; every handle, or
\* a missing handle that makes the construction fail
PipelineConfigs ==
    {c \in Configs : /\ Len(c.options) \in {0, MaxPermutable + 1}
                     /\ c.io # FullIo => check_io_options_raises(c)}

Init ==
    /\ cal = CalIdle
    /\ \E cfg \in PipelineConfigs, positions \in SeedPositions :
        /\ config = cfg
        /\ self = NewObject(cfg)
        /\ store = SeedStore(cfg, positions)
        /\ pc = IF init_error(cfg) # "" THEN "init_raised" ELSE "idle"
        /\ loc = [NoLocals EXCEPT !.error = init_error(cfg)]
        /\ log = init_calls(cfg)
    /\ args = NoArgs
    /\ runs = 0
    /\ prev = NoPrev
    /\ other = NoOther

\* a new object is constructed from the same options over the same store
Construct ==
    /\ pc \in {"done", "raised"}
    /\ runs < MaxRuns
    /\ self' = NewObject(config)
    /\ pc' = "idle"
    /\ args' = NoArgs
    /\ loc' = NoLocals
    /\ log' = init_calls(config)
    /\ prev' = NoPrev
    /\ UNCHANGED <<cal, other, config, store, runs>>

\* compute(current, reference, timesteps_per_year) is invoked
Compute(a) ==
    /\ pc \in {"idle", "done", "raised"}
    /\ runs < MaxRuns
    /\ runs' = runs + 1
    /\ prev' = IF pc = "idle" THEN NoPrev
               ELSE [valid |-> TRUE, args |-> args, returned |-> (pc = "done")]
    /\ args' = a
    /\ loc' = NoLocals
    /\ log' = <<>>
    /\ pc' = "make_data_timesteps"
    /\ UNCHANGED <<cal, other, config, self, store>>

agg_timesteps_per_year ==
    IF Len(self.cases.agg) = 0 THEN 365 ELSE args.timesteps_per_year

\* compute is invoked with a cadence that is not one, as the last invocation
ComputeInvalidCadence ==
    /\ runs = MaxRuns - 1
    /\ Compute(InvalidCadenceArgs)

\* the timesteps of current alone
current_data_timesteps(current_timesteps, n) == current_timesteps

\* make_data_timesteps(current, reference_fn, agg_timesteps_per_year)
make_data_timesteps(current_timesteps, n) ==
    LET refs == {reference_fn(args.reference, time) : time \in Range(current_timesteps)}
        reference_start == {ref[1] : ref \in refs}
        reference_end   == {ref[2] : ref \in refs}
    IN  IF self.iscontinuous
        THEN create_timesteps(SetMin(reference_start), SetMax(Range(current_timesteps)), n)
        ELSE SortedSeq(Range(create_timesteps(SetMin(reference_start), SetMax(reference_end), n))
                        \cup Range(current_timesteps))

ResolveDataTimesteps ==
    /\ pc = "make_data_timesteps"
    /\ LET n == agg_timesteps_per_year
           current_timesteps ==
               IF create_timesteps_raises(n) THEN <<>>
               ELSE create_timesteps(args.current[1], args.current[2], n)
       IN  IF create_timesteps_raises(n) \/ current_timesteps = <<>>
           THEN Raise("ValueError")
           ELSE /\ pc' = "make_input_data"
                /\ loc' = [loc EXCEPT !.data_timesteps = make_data_timesteps(current_timesteps, n)]
    /\ log' = Append(log, Call("make_data_timesteps", <<>>))
    /\ UNCHANGED <<cal, other, config, self, store, args, runs, prev>>

(***************************************************************************)
(* DRYESIndex.make_input_data                                              *)
(***************************************************************************)
agg_names == [k \in 1..Len(self.cases.agg) |-> self.cases.agg[k].name]

postaggfun == self.time_aggregation.postaggfun

\* variable_out.get_times(time_range, agg_fn = agg_name)
available_ts(agg_name, timesteps) ==
    get_times(store, "data", Tag("agg_fn", agg_name),
              SetMin(Range(timesteps)), SetMax(Range(timesteps)))

\* these_ts_to_compute of an aggregation name
these_ts_to_compute(agg_name, timesteps) ==
    IF agg_name \notin postaggfun
    THEN ts_not_available(timesteps, available_ts(agg_name, timesteps))
    ELSE ts_in_order(timesteps, available_ts(agg_name, timesteps))

\* the position of the first aggregation whose resolution raises, or 0
FirstRaising(timesteps) ==
    LET raising == {k \in 1..Len(agg_names) :
                        /\ agg_names[k] \in postaggfun
                        /\ ts_in_order_raises(timesteps, available_ts(agg_names[k], timesteps))}
    IN  IF raising = {} THEN 0 ELSE SetMin(raising)

\* agg_data = {n:[] for n in agg_names if agg_name in time_agg.postaggfun.keys()}
\* where agg_name is the last name of the loop that precedes
init_agg_data ==
    IF agg_names[Len(agg_names)] \in postaggfun
    THEN [n \in Range(agg_names) |-> <<>>]
    ELSE [n \in {} |-> <<>>]

\* lines 227-266: the timesteps to compute of every aggregation
AggResolve ==
    /\ pc = "make_input_data"
    /\ LET timesteps == loc.data_timesteps
           n == Len(agg_names)
           called == Append(log, Call("make_input_data", <<>>))
       IN  IF n = 0
           THEN /\ pc' = "make_reference_periods"
                /\ loc' = [loc EXCEPT !.data_timesteps = <<>>]
                /\ log' = called
           ELSE IF timesteps = <<>>
           THEN Raise("ValueError") /\ log' = called
           ELSE LET kerr == FirstRaising(timesteps)
                    reads == [k \in 1..(IF kerr = 0 THEN n ELSE kerr) |->
                                Ev("get_times", "data", Tag("agg_fn", agg_names[k]), 0, 0,
                                   available_ts(agg_names[k], timesteps))]
                    ttc == [nm \in Range(agg_names) |-> these_ts_to_compute(nm, timesteps)]
                    tti == SortedSeq(UNION {Range(ttc[nm]) : nm \in Range(agg_names)})
                IN  /\ log' = called \o reads
                    /\ IF kerr # 0
                       THEN Raise("IndexError")
                       ELSE /\ pc' = IF tti = <<>> THEN "agg_post" ELSE "agg_iterate"
                            /\ loc' = [loc EXCEPT !.timesteps_to_compute = ttc,
                                                  !.timesteps_to_iterate = tti,
                                                  !.agg_data = init_agg_data,
                                                  !.i = 1,
                                                  !.a = 1]
    /\ UNCHANGED <<cal, other, config, self, store, args, runs, prev>>

\* lines 269-276, for one time: the aggregations from the k-th on
RECURSIVE AggStep(_, _, _)
AggStep(k, time, acc) ==
    IF k > Len(agg_names) \/ acc.error # "" THEN acc
    ELSE LET nm == agg_names[k]
             called == Append(acc.events, Ev("compute_fn", nm, EmptyTags, time, time, <<>>))
         IN  IF time \notin Range(loc.timesteps_to_compute[nm])
             THEN AggStep(k + 1, time, acc)
             ELSE IF nm \notin postaggfun
             THEN AggStep(k + 1, time,
                    [acc EXCEPT !.events = Append(called,
                        Ev("write_data", "data", Tag("agg_fn", nm), time, time, <<>>))])
             ELSE IF nm \notin DOMAIN acc.agg_data
             THEN [acc EXCEPT !.events = called, !.error = "KeyError"]
             ELSE AggStep(k + 1, time,
                    [acc EXCEPT !.events = called,
                                !.agg_data = [@ EXCEPT ![nm] = Append(@, time)]])

\* lines 267-276: one iteration of the loop over timesteps_to_iterate
AggTimestep ==
    /\ pc = "agg_iterate"
    /\ LET time == loc.timesteps_to_iterate[loc.i]
           acc == AggStep(1, time, [events |-> <<>>, agg_data |-> loc.agg_data, error |-> ""])
       IN  /\ log' = log \o UpToFailure(acc.events)
           /\ store' = ApplyWrites(store, UpToFailure(acc.events))
           /\ IF FailureAt(acc.events) # 0
              THEN Raise("ComputationError")
              ELSE IF acc.error # ""
              THEN Raise(acc.error)
              ELSE /\ pc' = IF loc.i = Len(loc.timesteps_to_iterate) THEN "agg_post" ELSE "agg_iterate"
                   /\ loc' = [loc EXCEPT !.agg_data = acc.agg_data, !.i = loc.i + 1]
    /\ UNCHANGED <<cal, other, config, self, args, runs, prev>>

\* lines 278-285: one iteration of the loop that completes the aggregations
AggPost ==
    /\ pc = "agg_post"
    /\ LET nm == agg_names[loc.a]
           last == loc.a = Len(agg_names)
       IN  IF nm \notin postaggfun
           THEN /\ pc' = IF last THEN "make_reference_periods" ELSE "agg_post"
                /\ loc' = IF last THEN NoLocals ELSE [loc EXCEPT !.a = loc.a + 1]
                /\ UNCHANGED <<store, log>>
           ELSE IF nm \notin DOMAIN loc.agg_data
           THEN Raise("KeyError") /\ UNCHANGED <<store, log>>
           ELSE LET data == loc.agg_data[nm]
                    events == <<Ev("post_agg_fn", nm, EmptyTags, 0, 0, data)>> \o
                              [k \in 1..Len(data) |->
                                Ev("write_data", "data", Tag("agg_fn", nm),
                                   loc.timesteps_to_compute[nm][k], data[k], <<>>)]
                IN  /\ log' = log \o events
                    /\ store' = ApplyWrites(store, events)
                    /\ pc' = IF last THEN "make_reference_periods" ELSE "agg_post"
                    /\ loc' = IF last THEN NoLocals ELSE [loc EXCEPT !.a = loc.a + 1]
    /\ UNCHANGED <<cal, other, config, self, args, runs, prev>>

(***************************************************************************)
(* DRYESIndex.make_reference_periods and DRYESIndex.make_parameters        *)
(***************************************************************************)
\* references.sort() of a set of (start, end) tuples
RECURSIVE SortedPairs(_)
SortedPairs(S) ==
    IF S = {} THEN <<>>
    ELSE LET least == CHOOSE x \in S : \A y \in S :
                        x[1] < y[1] \/ (x[1] = y[1] /\ x[2] <= y[2])
         IN  <<least>> \o SortedPairs(S \ {least})

\* no reference period at all
no_reference_periods(current_timesteps) == <<>>

\* the reference period of every timestep, in the order of the timesteps
reference_period_per_timestep(current_timesteps) ==
    [k \in 1..Len(current_timesteps) |-> reference_fn(args.reference, current_timesteps[k])]

make_reference_periods(current_timesteps) ==
    SortedPairs({reference_fn(args.reference, time) : time \in Range(current_timesteps)})

\* lines 171-174 of compute
ResolveReferencePeriods ==
    /\ pc = "make_reference_periods"
    /\ IF create_timesteps_raises(args.timesteps_per_year)
       THEN Raise("ValueError") /\ log' = log
       ELSE LET timesteps == create_timesteps(args.current[1], args.current[2], args.timesteps_per_year)
                reference_periods == make_reference_periods(timesteps)
            IN  /\ loc' = [NoLocals EXCEPT !.timesteps = timesteps,
                                           !.reference_periods = reference_periods,
                                           !.r = 1, !.a = 1, !.o = 1]
                /\ pc' = IF reference_periods = <<>> THEN "make_index" ELSE "make_parameters"
                /\ log' = Append(log, Call("make_reference_periods", <<>>))
    /\ UNCHANGED <<cal, other, config, self, store, args, runs, prev>>

\* the cadence make_parameters is given by compute (line 178)
parameters_timesteps_per_year == args.timesteps_per_year

\* the day-positions of make_parameters, on the fictitious year 1900
md_timesteps(timesteps_per_year) ==
    LET md == ntimesteps_to_md(timesteps_per_year)
    IN  [k \in 1..Len(md) |-> Date(1900, md[k][1], md[k][2])]

\* the aggregation cases of make_parameters and make_index: the cases, or
\* one case without tags when no aggregation is configured
NumAggCases == IF Len(self.cases.agg) = 0 THEN 1 ELSE Len(self.cases.agg)

\* the tags of the first aggregation case, whatever the case
first_agg_tags(a) == IF Len(self.cases.agg) = 0 THEN EmptyTags ELSE self.cases.agg[1].tags

agg_tags(a) == IF Len(self.cases.agg) = 0 THEN EmptyTags ELSE self.cases.agg[a].tags

\* the tags of self._parameters[par] after the in-place update of lines 295-296
updated_parameters_tags(history) ==
    [k \in 1..Len(parameters) |-> UpdateTags(self.parameters_tags[k], HistoryTags(history))]

\* make_parameter_1agg, lines 329-339: the (parameter, opt case) pairs in the
\* order of the two loops, and the timesteps each one misses
ParCasePairs ==
    [j \in 1..(Len(parameters) * Len(self.cases.opt)) |->
        [par |-> ((j - 1) \div Len(self.cases.opt)) + 1,
         case |-> ((j - 1) % Len(self.cases.opt)) + 1]]

\* the scope par.get_times(.., **case['tags']) and par.write_data(.., **tags)
\* address, par being self._parameters[p].update(**agg_tags)
parameter_scope(ptags, a, pair) ==
    Scope(Scope(ptags[pair.par], agg_tags(a)), self.cases.opt[pair.case].tags)

this_ts_done(ptags, a, pair, timesteps) ==
    get_times(store, parameters[pair.par], parameter_scope(ptags, a, pair),
              SetMin(Range(timesteps)), SetMax(Range(timesteps)))

\* timesteps_to_do[time]: the case ids to calculate, by parameter, todo
\* being the timesteps each (parameter, opt case) pair misses
par_cases_of(todo, time) ==
    LET missing(k) == SelectSeq([j \in 1..Len(ParCasePairs) |-> j],
                        LAMBDA j : ParCasePairs[j].par = k /\ time \in Range(todo[j]))
        pars == SelectSeq([k \in 1..Len(parameters) |-> k], LAMBDA k : Len(missing(k)) > 0)
    IN  [x \in 1..Len(pars) |->
            [par |-> pars[x],
             cases |-> [y \in 1..Len(missing(pars[x])) |->
                            self.cases.opt[ParCasePairs[missing(pars[x])[y]].case].id]]]

\* lines 344-355 for one time: calc_parameters, then a write for every
\* parameter and case id it returns a value for (every one asked for)
parameter_writes(ptags, a, asked, time) ==
    <<Ev("calc_parameters", "", Scope(EmptyTags, agg_tags(a)), time, 0, asked)>> \o
    Flatten([x \in 1..Len(asked) |->
        [y \in 1..Len(asked[x].cases) |->
            Ev("write_data", parameters[asked[x].par],
               Scope(Scope(ptags[asked[x].par], agg_tags(a)),
                     self.cases.opt[asked[x].cases[y] + 1].tags),
               time, time, <<>>)]])

\* lines 295-296: the tags of self._parameters, updated in place before the
\* first aggregation case of a reference period
period_parameters_tags ==
    IF loc.a = 1 THEN updated_parameters_tags(loc.reference_periods[loc.r])
    ELSE self.parameters_tags

\* lines 329-339: what get_times finds of every (parameter, opt case) pair
parameter_ts_done ==
    [j \in 1..Len(ParCasePairs) |->
        this_ts_done(period_parameters_tags, loc.a, ParCasePairs[j],
                     md_timesteps(parameters_timesteps_per_year))]

\* the call of make_parameters before the first aggregation case, and the
\* get_times of lines 329-339, ts_done being what they return
parameter_read(ts_done) ==
    (IF loc.a = 1 THEN <<Call("make_parameters", loc.reference_periods[loc.r])>> ELSE <<>>) \o
    [j \in 1..Len(ParCasePairs) |->
        Ev("get_times", parameters[ParCasePairs[j].par],
           parameter_scope(period_parameters_tags, loc.a, ParCasePairs[j]), 0, 0, ts_done[j])]

\* lines 340-355 for one reference period and one aggregation case, ts_done
\* being what get_times has returned for every pair, ptags the tags of
\* self._parameters and read the events of the lines before
ParameterCase(ptags, ts_done, read) ==
    LET timesteps == md_timesteps(parameters_timesteps_per_year)
        todo == [j \in 1..Len(ParCasePairs) |-> ts_not_available(timesteps, ts_done[j])]
        timesteps_to_do == FirstOccurrences(Flatten(todo))
        events == read \o
                  Flatten([k \in 1..Len(timesteps_to_do) |->
                            parameter_writes(ptags, loc.a, par_cases_of(todo, timesteps_to_do[k]),
                                             timesteps_to_do[k])])
        lastagg == loc.a = NumAggCases
        lastref == loc.r = Len(loc.reference_periods)
    IN  /\ self' = [self EXCEPT !.parameters_tags = ptags]
        /\ log' = log \o UpToFailure(events)
        /\ store' = ApplyWrites(store, UpToFailure(events))
        /\ IF FailureAt(events) # 0
           THEN Raise("ComputationError")
           ELSE /\ pc' = IF lastagg /\ lastref THEN "make_index" ELSE "make_parameters"
                /\ loc' = [loc EXCEPT !.a = IF lastagg THEN 1 ELSE loc.a + 1,
                                      !.r = IF lastagg /\ ~lastref THEN loc.r + 1 ELSE loc.r,
                                      !.ts_done = {},
                                      !.this_ts_todo = todo]

\* make_parameters for one reference period, one aggregation case:
\* lines 295-301 before the first one, then make_parameter_1agg
MakeParameter1Agg ==
    /\ pc = "make_parameters"
    /\ ParameterCase(period_parameters_tags, parameter_ts_done, parameter_read(parameter_ts_done))
    /\ UNCHANGED <<cal, other, config, args, runs, prev>>

(***************************************************************************)
(* DRYESIndex.make_index                                                   *)
(***************************************************************************)
\* the tags of the opt case after lines 367-369: case = case_.copy() copies
\* the case, not its tags, so that case['tags'] is the tags of
\* self.cases['opt'][o] itself
index_case_tags(a, o) ==
    UpdateTags(UpdateTags(self.cases.opt[o].tags, agg_tags(a)), Tag("post_fn", ""))

\* case['tags'].update({'history_start': .., 'history_end': ..}) for time
with_history(tags, time) == UpdateTags(tags, HistoryTags(reference_fn(args.reference, time)))

\* the tags after the loop over ts_todo
after_todo(tags, ts_todo) ==
    IF ts_todo = <<>> THEN tags ELSE with_history(tags, ts_todo[Len(ts_todo)])

\* the (aggregation case, opt case) that follows (a, o), the loop over the
\* aggregation cases being the outer one
NextIndexCaseFrom(locals) ==
    IF loc.o < Len(self.cases.opt)
    THEN /\ pc' = "make_index"
         /\ loc' = [locals EXCEPT !.o = loc.o + 1, !.p = 0]
    ELSE IF loc.a < NumAggCases
    THEN /\ pc' = "make_index"
         /\ loc' = [locals EXCEPT !.a = loc.a + 1, !.o = 1, !.p = 0]
    ELSE /\ pc' = "done"
         /\ loc' = NoLocals

NextIndexCase == NextIndexCaseFrom(loc)

\* lines 375-386 for one (aggregation case, opt case), ts_done being what
\* get_times has returned and read the events of lines 366-374
IndexCase(ts_done, read) ==
    LET timesteps == loc.timesteps
        tags == index_case_tags(loc.a, loc.o)
        index_tags == Scope(EmptyTags, tags)
        ts_todo == ts_not_available(timesteps, ts_done)
        events == read \o
                  Flatten([k \in 1..Len(ts_todo) |->
                    <<Ev("calc_index", "", with_history(tags, ts_todo[k]), ts_todo[k], 0, <<>>),
                      Ev("write_data", "index", index_tags, ts_todo[k], ts_todo[k], <<>>)>>])
        reached == IF FailureAt(events) = 0 THEN Len(ts_todo)
                   ELSE CallsOf(UpToFailure(events), "calc_index")
    IN  /\ self' = [self EXCEPT !.cases.opt[loc.o].tags =
                        after_todo(tags, SubSeq(ts_todo, 1, reached))]
        /\ log' = log \o UpToFailure(events)
        /\ store' = ApplyWrites(store, UpToFailure(events))
        /\ IF FailureAt(events) # 0
           THEN Raise("ComputationError")
           ELSE IF Len(self.cases.post) > 0
           THEN /\ pc' = "post_processing"
                /\ loc' = [loc EXCEPT !.index_tags = index_tags, !.p = 1]
           ELSE NextIndexCase

\* lines 366-374: the call of make_index before the first case, and
\* get_times on the handle of the case
index_read(ts_done) ==
    (IF loc.a = 1 /\ loc.o = 1 THEN <<Call("make_index", <<>>)>> ELSE <<>>) \o
    <<Ev("get_times", "index", Scope(EmptyTags, index_case_tags(loc.a, loc.o)), 0, 0, ts_done)>>

index_ts_done ==
    get_times(store, "index", Scope(EmptyTags, index_case_tags(loc.a, loc.o)),
              SetMin(Range(loc.timesteps)), SetMax(Range(loc.timesteps)))

\* lines 366-386: the base index of one (aggregation case, opt case)
IndexBase ==
    /\ pc = "make_index"
    /\ IF loc.timesteps = <<>>
       THEN /\ Raise("ValueError")
            /\ log' = Append(log, Call("make_index", <<>>))
            /\ UNCHANGED <<self, store>>
       ELSE IndexCase(index_ts_done, index_read(index_ts_done))
    /\ UNCHANGED <<cal, other, config, args, runs, prev>>

\* the position in ts_todo of the first time the base index has no value
\* for under the scope of the handle index, or 0
FirstMissingBase(ts_todo) ==
    LET missing == {k \in 1..Len(ts_todo) : ~HasData(store, "index", loc.index_tags, ts_todo[k])}
    IN  IF missing = {} THEN 0 ELSE SetMin(missing)

\* lines 389-405: one post-processing case of the (aggregation, opt) case
PostCase ==
    /\ pc = "post_processing"
    /\ LET timesteps == loc.timesteps
           post_case == self.cases.post[loc.p]
           tags == UpdateTags(self.cases.opt[loc.o].tags, post_case.tags)
           ppindex_tags == Scope(EmptyTags, tags)
           ts_done == get_times(store, "index", ppindex_tags,
                                SetMin(Range(timesteps)), SetMax(Range(timesteps)))
           ts_todo == ts_not_available(timesteps, ts_done)
           kmiss == FirstMissingBase(ts_todo)
           upto == IF kmiss = 0 THEN Len(ts_todo) ELSE kmiss
           events == <<Ev("get_times", "index", ppindex_tags, 0, 0, ts_done)>> \o
                     Flatten([k \in 1..upto |->
                        IF k = kmiss
                        THEN <<Ev("get_data", "index", loc.index_tags, ts_todo[k], 0, <<>>)>>
                        ELSE <<Ev("get_data", "index", loc.index_tags, ts_todo[k], 0, <<>>),
                               Ev("post_fn", post_case.name, with_history(tags, ts_todo[k]), ts_todo[k], 0, <<>>),
                               Ev("write_data", "index", ppindex_tags, ts_todo[k], ts_todo[k], <<>>)>>])
           reached == IF FailureAt(events) = 0 THEN upto
                      ELSE CallsOf(UpToFailure(events), "get_data")
       IN  /\ self' = [self EXCEPT !.cases.opt[loc.o].tags =
                            after_todo(tags, SubSeq(ts_todo, 1, reached))]
           /\ log' = log \o UpToFailure(events)
           /\ store' = ApplyWrites(store, UpToFailure(events))
           /\ IF FailureAt(events) # 0
              THEN Raise("ComputationError")
              ELSE IF kmiss # 0
              THEN Raise("MissingData")
              ELSE IF loc.p < Len(self.cases.post)
              THEN /\ pc' = "post_processing"
                   /\ loc' = [loc EXCEPT !.p = loc.p + 1]
              ELSE NextIndexCase
    /\ UNCHANGED <<cal, other, config, args, runs, prev>>

Next ==
    \/ \E a \in ComputeArgs : Compute(a)
    \/ ComputeInvalidCadence
    \/ Construct
    \/ ResolveDataTimesteps
    \/ AggResolve
    \/ AggTimestep
    \/ AggPost
    \/ ResolveReferencePeriods
    \/ MakeParameter1Agg
    \/ IndexBase
    \/ PostCase

Spec == Init /\ [][Next]_vars

(***************************************************************************)
(* compute with an injected function that raises.                          *)
(***************************************************************************)
InitFailure == Init /\ config.io = FullIo

\* compute over the first three quarters of 2020, one call of one injected
\* function raising
ComputeFailing ==
    /\ runs = 0
    /\ \E f \in Failures :
        Compute([current |-> <<Date(2020, 1, 1), Date(2020, 9, 30)>>,
                 reference |-> [kind |-> "tuple", start |-> Date(2019, 1, 1), end |-> Date(2019, 12, 31)],
                 timesteps_per_year |-> 4, fail |-> f])

NextFailure ==
    \/ ComputeFailing
    \/ ResolveDataTimesteps
    \/ AggResolve
    \/ AggTimestep
    \/ AggPost
    \/ ResolveReferencePeriods
    \/ MakeParameter1Agg
    \/ IndexBase
    \/ PostCase

SpecFailure == InitFailure /\ [][NextFailure]_vars

(***************************************************************************)
(* Two invocations of compute, each on an object of its own, against the   *)
(* same store.  The invocation that runs is in self, pc, args, loc and     *)
(* log; the one that waits is in other.  Nothing in compute or the make_*  *)
(* methods takes a lock, so that the invocations may be interleaved        *)
(* between any two calls on a handle: between the get_times of a stage and *)
(* the writes that follow from it, in particular.                          *)
(***************************************************************************)
\* one aggregation without post-aggregation, no option, with or without a
\* post-processing function, every handle
ConcurrentConfigs ==
    {c \in Configs : /\ c.agg_fn = <<[name |-> AggNames[1], fn |-> CallableFn]>>
                     /\ c.options = <<>>
                     /\ c.io = FullIo}

\* the store holds the aggregated data of every quarter, or of every
\* quarter but the last two
ConcurrentSeeds == {{1, 2, 3, 4, 5, 6}, {1, 2, 3, 4, 5, 6, 7, 8}}

InitConcurrent ==
    /\ cal = CalIdle
    /\ \E cfg \in ConcurrentConfigs, positions \in ConcurrentSeeds :
        /\ config = cfg
        /\ self = NewObject(cfg)
        /\ store = SeedStore(cfg, positions)
        /\ log = init_calls(cfg)
        /\ other = [self |-> NewObject(cfg), pc |-> "idle", args |-> NoArgs,
                    loc |-> NoLocals, log |-> init_calls(cfg)]
    /\ pc = "idle"
    /\ loc = NoLocals
    /\ args = NoArgs
    /\ runs = 0
    /\ prev = NoPrev

\* the invocation that runs is suspended, and the other one goes on
Switch ==
    /\ other.pc # "none"
    /\ self' = other.self
    /\ pc' = other.pc
    /\ args' = other.args
    /\ loc' = other.loc
    /\ log' = other.log
    /\ other' = [self |-> self, pc |-> pc, args |-> args, loc |-> loc, log |-> log]
    /\ UNCHANGED <<cal, config, store, runs, prev>>

\* each object is asked to compute once, with the tuple reference
ComputeConcurrent ==
    /\ pc = "idle"
    /\ \E a \in ComputeArgs : a.reference.kind = "tuple" /\ Compute(a)

\* what the loop that computes and writes works from: the times get_times
\* returned before it (lines 374-375 and 339-342), not the times the store
\* holds when the write is made
ts_done_rechecked(returned, current) == current

ts_done_at_write(returned, current) == returned

\* the configurations of the two invocations have one aggregation, one
\* parameter and one opt case: every action below makes one call on a
\* handle, and the invocations are interleaved between any two of them

\* the locals once the loop over the times of a stage is over
LoopDone(locals) == [locals EXCEPT !.i = 0, !.ts_done = {}]

\* make_parameters goes on to the next aggregation case, to the next
\* reference period, or returns
ParameterCaseDone(todo) ==
    LET lastagg == loc.a = NumAggCases
        lastref == loc.r = Len(loc.reference_periods)
    IN  /\ pc' = IF lastagg /\ lastref THEN "make_index" ELSE "make_parameters"
        /\ loc' = [LoopDone(loc) EXCEPT !.a = IF lastagg THEN 1 ELSE loc.a + 1,
                                        !.r = IF lastagg /\ ~lastref THEN loc.r + 1 ELSE loc.r,
                                        !.this_ts_todo = todo]

\* make_parameter_1agg up to line 342: the get_times of the (parameter,
\* opt case) pair, and the return when nothing is missing
ParameterRead ==
    /\ pc = "make_parameters"
    /\ self' = [self EXCEPT !.parameters_tags = period_parameters_tags]
    /\ log' = log \o parameter_read(parameter_ts_done)
    /\ LET timesteps == md_timesteps(parameters_timesteps_per_year)
           todo == [j \in 1..Len(ParCasePairs) |->
                        ts_not_available(timesteps, parameter_ts_done[j])]
       IN  IF Flatten(todo) = <<>>
           THEN ParameterCaseDone(todo)
           ELSE /\ pc' = "make_parameters_write"
                /\ loc' = [loc EXCEPT !.ts_done = parameter_ts_done, !.i = 1]
    /\ UNCHANGED <<cal, other, config, store, args, runs, prev>>

\* lines 344-355 for one time of timesteps_to_do: calc_parameters and the
\* write of what it returns
ParameterWrite ==
    /\ pc = "make_parameters_write"
    /\ LET timesteps == md_timesteps(parameters_timesteps_per_year)
           todo == [j \in 1..Len(ParCasePairs) |-> ts_not_available(timesteps, loc.ts_done[j])]
           timesteps_to_do == FirstOccurrences(Flatten(todo))
           time == timesteps_to_do[loc.i]
           known == ts_done_at_write(loc.ts_done, parameter_ts_done)
           asked == par_cases_of([j \in 1..Len(ParCasePairs) |->
                                    ts_not_available(timesteps, known[j])], time)
           events == IF asked = <<>> THEN <<>>
                     ELSE parameter_writes(self.parameters_tags, loc.a, asked, time)
       IN  /\ log' = log \o events
           /\ store' = ApplyWrites(store, events)
           /\ IF loc.i = Len(timesteps_to_do)
              THEN ParameterCaseDone(todo)
              ELSE /\ pc' = "make_parameters_write"
                   /\ loc' = [loc EXCEPT !.i = loc.i + 1]
    /\ UNCHANGED <<cal, other, config, self, args, runs, prev>>

\* after the base index of a case: its first post-processing case, or the
\* next case
IndexCaseDone ==
    IF Len(self.cases.post) > 0
    THEN /\ pc' = "post_processing"
         /\ loc' = [LoopDone(loc) EXCEPT !.p = 1]
    ELSE NextIndexCaseFrom(LoopDone(loc))

\* make_index up to line 376: the tags of the case, the handle index and
\* its get_times
IndexRead ==
    /\ pc = "make_index"
    /\ IF loc.timesteps = <<>>
       THEN /\ Raise("ValueError")
            /\ log' = Append(log, Call("make_index", <<>>))
            /\ UNCHANGED self
       ELSE LET tags == index_case_tags(loc.a, loc.o)
                index_tags == Scope(EmptyTags, tags)
            IN  /\ self' = [self EXCEPT !.cases.opt[loc.o].tags = tags]
                /\ log' = log \o index_read(index_ts_done)
                /\ IF ts_not_available(loc.timesteps, index_ts_done) = <<>>
                   THEN IF Len(self.cases.post) > 0
                        THEN /\ pc' = "post_processing"
                             /\ loc' = [LoopDone(loc) EXCEPT !.index_tags = index_tags, !.p = 1]
                        ELSE NextIndexCaseFrom(LoopDone(loc))
                   ELSE /\ pc' = "make_index_write"
                        /\ loc' = [loc EXCEPT !.index_tags = index_tags,
                                              !.ts_done = index_ts_done, !.i = 1]
    /\ UNCHANGED <<cal, other, config, store, args, runs, prev>>

\* lines 381-386 for one time of ts_todo: the history tags, calc_index and
\* the write of its value on the handle index
IndexWrite ==
    /\ pc = "make_index_write"
    /\ LET ts_todo == ts_not_available(loc.timesteps, loc.ts_done)
           time == ts_todo[loc.i]
           current == get_times(store, "index", loc.index_tags,
                                SetMin(Range(loc.timesteps)), SetMax(Range(loc.timesteps)))
           tags == with_history(self.cases.opt[loc.o].tags, time)
           events == IF time \in ts_done_at_write(loc.ts_done, current) THEN <<>>
                     ELSE <<Ev("calc_index", "", tags, time, 0, <<>>),
                            Ev("write_data", "index", loc.index_tags, time, time, <<>>)>>
       IN  /\ self' = [self EXCEPT !.cases.opt[loc.o].tags = tags]
           /\ log' = log \o events
           /\ store' = ApplyWrites(store, events)
           /\ IF loc.i = Len(ts_todo)
              THEN IndexCaseDone
              ELSE /\ pc' = "make_index_write"
                   /\ loc' = [loc EXCEPT !.i = loc.i + 1]
    /\ UNCHANGED <<cal, other, config, args, runs, prev>>

\* after a post-processing case: the next one, or the next case
PostCaseDone ==
    IF loc.p < Len(self.cases.post)
    THEN /\ pc' = "post_processing"
         /\ loc' = [LoopDone(loc) EXCEPT !.p = loc.p + 1]
    ELSE NextIndexCaseFrom(LoopDone(loc))

\* lines 389-397: the tags of the post-processing case, the handle ppindex
\* and its get_times
PostRead ==
    /\ pc = "post_processing"
    /\ LET tags == UpdateTags(self.cases.opt[loc.o].tags, self.cases.post[loc.p].tags)
           ppindex_tags == Scope(EmptyTags, tags)
           ts_done == get_times(store, "index", ppindex_tags,
                                SetMin(Range(loc.timesteps)), SetMax(Range(loc.timesteps)))
       IN  /\ self' = [self EXCEPT !.cases.opt[loc.o].tags = tags]
           /\ log' = Append(log, Ev("get_times", "index", ppindex_tags, 0, 0, ts_done))
           /\ IF ts_not_available(loc.timesteps, ts_done) = <<>>
              THEN PostCaseDone
              ELSE /\ pc' = "post_get_data"
                   /\ loc' = [loc EXCEPT !.ppindex_tags = ppindex_tags,
                                         !.ts_done = ts_done, !.i = 1]
    /\ UNCHANGED <<cal, other, config, store, args, runs, prev>>

\* lines 398-402 for one time of ts_todo: the history tags and the get_data
\* of the base index
PostGetData ==
    /\ pc = "post_get_data"
    /\ LET ts_todo == ts_not_available(loc.timesteps, loc.ts_done)
           time == ts_todo[loc.i]
       IN  /\ self' = [self EXCEPT !.cases.opt[loc.o].tags =
                            with_history(self.cases.opt[loc.o].tags, time)]
           /\ log' = Append(log, Ev("get_data", "index", loc.index_tags, time, 0, <<>>))
           /\ IF HasData(store, "index", loc.index_tags, time)
              THEN pc' = "post_write_data" /\ UNCHANGED loc
              ELSE Raise("MissingData")
    /\ UNCHANGED <<cal, other, config, store, args, runs, prev>>

\* lines 403-405 for the same time: post_fn and the write of its value on
\* the handle ppindex
PostWriteData ==
    /\ pc = "post_write_data"
    /\ LET ts_todo == ts_not_available(loc.timesteps, loc.ts_done)
           time == ts_todo[loc.i]
           events == <<Ev("post_fn", self.cases.post[loc.p].name,
                          self.cases.opt[loc.o].tags, time, 0, <<>>),
                       Ev("write_data", "index", loc.ppindex_tags, time, time, <<>>)>>
       IN  /\ log' = log \o events
           /\ store' = ApplyWrites(store, events)
           /\ IF loc.i = Len(ts_todo)
              THEN PostCaseDone
              ELSE /\ pc' = "post_get_data"
                   /\ loc' = [loc EXCEPT !.i = loc.i + 1]
    /\ UNCHANGED <<cal, other, config, self, args, runs, prev>>

NextConcurrent ==
    \/ ComputeConcurrent
    \/ Switch
    \/ ResolveDataTimesteps
    \/ AggResolve
    \/ AggTimestep
    \/ AggPost
    \/ ResolveReferencePeriods
    \/ ParameterRead
    \/ ParameterWrite
    \/ IndexRead
    \/ IndexWrite
    \/ PostRead
    \/ PostGetData
    \/ PostWriteData

SpecConcurrent == InitConcurrent /\ [][NextConcurrent]_vars

(***************************************************************************)
(* make_data_timesteps over more cadences, current ranges and references   *)
(* than the pipeline is run with.                                          *)
(***************************************************************************)
\* no aggregation, one without and one with a post-aggregation function,
\* in a class with or without an iscontinuous attribute
WindowConfigs ==
    {[agg_fn |-> a, options |-> <<>>, post_fn |-> <<>>, io |-> FullIo, iscontinuous |-> c] :
        a \in {<<>>, <<[name |-> AggNames[1], fn |-> CallableFn]>>,
               <<[name |-> AggNames[1], fn |-> TupleFn(2)]>>},
        c \in ClassIscontinuous}

WindowCadences == {1, 4, 12, 36}

\* current: a quarter, a range that starts and ends inside a month, the end
\* of a year, and a week no monthly timestep falls in
WindowCurrents ==
    {<<Date(2020, 1, 1), Date(2020, 3, 31)>>, <<Date(2020, 2, 15), Date(2020, 9, 30)>>,
     <<Date(2020, 11, 21), Date(2020, 12, 31)>>, <<Date(2020, 12, 25), Date(2020, 12, 31)>>}

\* reference: the year 2019, ten weeks of it, or the callable
WindowReferences ==
    {[kind |-> "tuple", start |-> Date(2019, 1, 1), end |-> Date(2019, 12, 31)],
     [kind |-> "tuple", start |-> Date(2019, 3, 10), end |-> Date(2019, 5, 20)],
     [kind |-> "callable", start |-> 0, end |-> 0]}

InitWindow ==
    /\ cal = CalIdle
    /\ \E cfg \in WindowConfigs :
        /\ config = cfg
        /\ self = NewObject(cfg)
    /\ args \in [current : WindowCurrents, reference : WindowReferences,
                 timesteps_per_year : WindowCadences, fail : {NoFail}]
    /\ store = {}
    /\ pc = "make_data_timesteps"
    /\ loc = NoLocals
    /\ log = <<>>
    /\ runs = 1
    /\ prev = NoPrev
    /\ other = NoOther

SpecWindow == InitWindow /\ [][ResolveDataTimesteps]_vars

(***************************************************************************)
(* Properties of compute.  They read the log of the invocation in progress *)
(* and the store.                                                          *)
(***************************************************************************)
\* the calls of the injected functions: the aggregation function and the
\* post-aggregation function of an aggregation, the fitter, the formula and
\* the post-processing function
ComputationOps == {"compute_fn", "post_agg_fn", "calc_parameters", "calc_index", "post_fn"}

Events(ops) == {k \in 1..Len(log) : log[k].op \in ops}

\* the invocation in progress repeats, on the same object, the arguments of
\* the invocation before it, which returned
IsRepeatedRun == prev.valid /\ prev.returned /\ prev.args = args

(***************************************************************************)
(* C1.  Idempotence of compute: when compute is invoked twice in a row on  *)
(* the same object with the same arguments over the same store, the second *)
(* invocation makes no write_data call and no compute_fn, calc_parameters, *)
(* calc_index or post-processing call.                                     *)
(***************************************************************************)
Idempotence ==
    IsRepeatedRun =>
        Events({"write_data", "compute_fn", "calc_parameters", "calc_index", "post_fn"}) = {}

(***************************************************************************)
(* C2.  Ordered gap resolution: for an aggregation with a post-aggregation *)
(* function, the timesteps make_input_data computes are the whole suffix   *)
(* of the data timesteps from the first one that is not persisted, the     *)
(* later persisted ones included ([t1..t5] with t1, t2, t4 persisted gives *)
(* [t3, t4, t5]); make_input_data does not raise while resolving them.     *)
(***************************************************************************)
\* the timesteps a store holds a value for, of a handle under a scope
Persisted(st, h, scope) == {e.time : e \in {x \in st : x.h = h /\ x.tags = scope}}

\* the persisted timesteps of an aggregation name
persisted_data(agg_name) == Persisted(store, "data", Tag("agg_fn", agg_name))

\* target[i:], i the position of the first target timestep not persisted
SuffixFromFirstMissing(target, persisted) ==
    LET missing == {k \in 1..Len(target) : target[k] \notin persisted}
    IN  IF missing = {} THEN <<>> ELSE SubSeq(target, SetMin(missing), Len(target))

\* make_input_data has resolved the timesteps to compute, and has computed
\* and written nothing yet
AggResolved ==
    /\ pc \in {"agg_iterate", "agg_post"}
    /\ Events({"compute_fn", "post_agg_fn", "write_data"}) = {}

OrderedGapIsSuffix ==
    /\ AggResolved =>
        \A k \in 1..Len(agg_names) :
            agg_names[k] \in postaggfun =>
                loc.timesteps_to_compute[agg_names[k]] =
                    SuffixFromFirstMissing(loc.data_timesteps, persisted_data(agg_names[k]))
    /\ ~(pc = "raised" /\ loc.error = "IndexError")

(***************************************************************************)
(* C3.  Unordered gap resolution: for an aggregation without               *)
(* post-aggregation function, for every (parameter, opt case) and for      *)
(* every full index case, the gap is exactly the target timesteps that are *)
(* not persisted under the scope read, in the order of the target: no      *)
(* persisted timestep is included and no missing one is omitted ([t1..t5]  *)
(* with t1, t2, t4 persisted gives [t3, t5]).                              *)
(***************************************************************************)
\* the events a step appends to the log
NewEvents == SubSeq(log', Len(log) + 1, Len(log'))

EventsOf(events, ops) == SelectSeq(events, LAMBDA e : e.op \in ops)

TimesOf(events, ops) ==
    LET sel == EventsOf(events, ops) IN [k \in 1..Len(sel) |-> sel[k].time]

ExactGap(gap, target, persisted) ==
    /\ Range(gap) = Range(target) \ persisted
    /\ \A i, j \in 1..Len(gap) :
        i < j => IndexOf(target, gap[i]) < IndexOf(target, gap[j])

UnorderedGapExact ==
    [][/\ (pc = "make_input_data" /\ pc' \in {"agg_iterate", "agg_post"}) =>
            \A k \in 1..Len(agg_names) :
                agg_names[k] \notin postaggfun =>
                    ExactGap(loc'.timesteps_to_compute[agg_names[k]],
                             loc.data_timesteps, persisted_data(agg_names[k]))
       /\ (pc = "make_parameters" /\ pc' # "raised") =>
            LET reads == EventsOf(NewEvents, {"get_times"})
            IN  \A j \in 1..Len(ParCasePairs) :
                    ExactGap(loc'.this_ts_todo[j],
                             md_timesteps(args.timesteps_per_year),
                             Persisted(store, reads[j].h, reads[j].tags))
       /\ (pc = "make_index" /\ pc' # "raised") =>
            LET read == EventsOf(NewEvents, {"get_times"})[1]
            IN  ExactGap(TimesOf(NewEvents, {"calc_index"}),
                         loc.timesteps, Persisted(store, "index", read.tags))
      ]_vars

\* the example: of the target t1..t5, t1, t2 and t4 are persisted for a
\* stateless aggregation, and t3 and t5 are the timesteps to compute
UnorderedGapWitness ==
    /\ AggResolved
    /\ loc.data_timesteps = SubSeq(QuarterTimesteps, 1, 5)
    /\ \E nm \in Range(agg_names) \ postaggfun :
        /\ persisted_data(nm) =
            {QuarterTimesteps[1], QuarterTimesteps[2], QuarterTimesteps[4]}
        /\ loc.timesteps_to_compute[nm] = <<QuarterTimesteps[3], QuarterTimesteps[5]>>

(***************************************************************************)
(* C4.  Cache-hit path: in the aggregation, parameter, index and           *)
(* post-processing stages, get_times reads the persisted timesteps of a    *)
(* scope before any computation or write for that scope, and when every    *)
(* target timestep of the scope is persisted the stage makes no            *)
(* computation and no write_data for that scope.                           *)
(***************************************************************************)
IsRead(j, h, scope) == log[j].op = "get_times" /\ log[j].h = h /\ log[j].tags = scope

IsWrite(k, h, scope) == log[k].op = "write_data" /\ log[k].h = h /\ log[k].tags = scope

ReadBefore(k, h, scope) == \E j \in 1..(k - 1) : IsRead(j, h, scope)

\* the computation a write persists the result of: the last one before it
ComputationOf(k) == SetMax({c \in Events(ComputationOps) : c < k})

\* the target timesteps of the reads of a handle
TargetOf(h) ==
    IF h = "data"
    THEN make_data_timesteps(
            create_timesteps(args.current[1], args.current[2], agg_timesteps_per_year),
            agg_timesteps_per_year)
    ELSE IF h = "index"
    THEN create_timesteps(args.current[1], args.current[2], args.timesteps_per_year)
    ELSE md_timesteps(args.timesteps_per_year)

ReadsComeFirst ==
    /\ \A k \in Events({"write_data"}) :
        ReadBefore(ComputationOf(k), log[k].h, log[k].tags)
    /\ \A k \in Events({"compute_fn", "post_agg_fn"}) :
        ReadBefore(k, "data", Tag("agg_fn", log[k].h))

NothingOnHit ==
    \A j \in Events({"get_times"}) :
        Range(TargetOf(log[j].h)) \subseteq log[j].arg =>
            \A k \in (j + 1)..Len(log) :
                /\ ~IsWrite(k, log[j].h, log[j].tags)
                /\ ~(/\ log[k].op \in {"compute_fn", "post_agg_fn"}
                     /\ IsRead(j, "data", Tag("agg_fn", log[k].h)))

CacheHitPath == ReadsComeFirst /\ NothingOnHit

(***************************************************************************)
(* C5.  Index stage: calc_index is invoked exactly once for each (full     *)
(* case, timestep) that is not persisted under the tag scope of the full   *)
(* case and never for a persisted one, and its result is written under     *)
(* that scope at that timestep; a first compute without post-processing    *)
(* over a store without index values leaves A x O x T index values, for A  *)
(* aggregation cases (1 when none is configured), O opt cases and T        *)
(* timesteps.                                                              *)
(***************************************************************************)
\* the tag scope of the full case (a, o): the tags of the opt case as
\* __init__ made them, the tags of the aggregation case, and no post_fn
FullCaseScope(a, o) ==
    LET cases == get_cases(config)
    IN  UpdateTags(UpdateTags(cases.opt[o].tags,
                              IF Len(cases.agg) = 0 THEN EmptyTags ELSE cases.agg[a].tags),
                   Tag("post_fn", ""))

Occurrences(seq, x) == Cardinality({k \in 1..Len(seq) : seq[k] = x})

IndexValues(st) == {e \in st : e.h = "index"}

IndexExactness ==
    [][(pc = "make_index" /\ pc' # "raised") =>
        LET scope == FullCaseScope(loc.a, loc.o)
            calculated == TimesOf(NewEvents, {"calc_index"})
        IN  /\ \A t \in Range(loc.timesteps) :
                /\ Occurrences(calculated, t) =
                        IF HasData(store, "index", scope, t) THEN 0 ELSE 1
                /\ HasData(store', "index", scope, t)
            /\ (pc' = "done" /\ runs = 1 /\ Len(config.post_fn) = 0) =>
                Cardinality(IndexValues(store')) =
                    NumAggCases * Len(get_cases(config).opt) * Len(loc.timesteps)
      ]_vars

(***************************************************************************)
(* C6.  The case lists self.cases (the ids, names and tags of the agg, opt *)
(* and post cases) are immutable: after any sequence of invocations they   *)
(* are what __init__ made them.                                            *)
(***************************************************************************)
CasesImmutable == pc # "init_raised" => self.cases = get_cases(config)

(***************************************************************************)
(* C7.  Stage barrier between the base index and the post-processing.  As  *)
(* claimed: within one compute no post-processing read or write happens    *)
(* before the base index computations and writes of all the full cases.    *)
(* As make_index does it: no post-processing read or write of a full case  *)
(* happens before the base index computations and writes of that full      *)
(* case; the post-processing of a full case comes before the base index of *)
(* the full cases that follow it.                                          *)
(***************************************************************************)
BaseWork(e) ==
    \/ e.op = "calc_index"
    \/ (e.op = "write_data" /\ e.h = "index" /\ e.tags["post_fn"] = "")

PostWork(e) ==
    \/ e.op \in {"get_data", "post_fn"}
    \/ (e.op \in {"get_times", "write_data"} /\ e.h = "index" /\ e.tags["post_fn"] # "")

\* the full case of an event of make_index: the aggregation and the options
FullCaseOf(e) ==
    [k \in DOMAIN e.tags \ {"post_fn", "history_start", "history_end"} |-> e.tags[k]]

StrictStageBarrier ==
    \A j, k \in 1..Len(log) :
        (BaseWork(log[j]) /\ PostWork(log[k])) => j < k

PerCaseStageBarrier ==
    \A j, k \in 1..Len(log) :
        (BaseWork(log[j]) /\ PostWork(log[k]) /\ FullCaseOf(log[j]) = FullCaseOf(log[k]))
            => j < k

\* compute has returned after the base index and the post-processing of two
\* full cases at least, the first one post-processed before the base index
\* of the second
PerCaseStageBarrierWitness ==
    /\ pc = "done"
    /\ \E j, k \in 1..Len(log) :
        /\ j < k
        /\ PostWork(log[j]) /\ log[j].op = "write_data"
        /\ BaseWork(log[k]) /\ log[k].op = "write_data"
        /\ FullCaseOf(log[j]) # FullCaseOf(log[k])
        /\ \E m \in (k + 1)..Len(log) :
            /\ PostWork(log[m]) /\ log[m].op = "write_data"
            /\ FullCaseOf(log[m]) = FullCaseOf(log[k])

(***************************************************************************)
(* C8.  Stage order of compute: the stages are entered in the order        *)
(* ResolveDataTimesteps, AggregateData, ResolveReferencePeriods,           *)
(* ComputeParameters (once per reference period), ComputeIndex,            *)
(* PostProcess, and a compute that returns has gone through all of them;   *)
(* every write of aggregated data precedes every parameter read or write,  *)
(* and every parameter write precedes every index write.                   *)
(***************************************************************************)
MethodRank(method) ==
    CASE method = "make_data_timesteps"    -> 1
      [] method = "make_input_data"        -> 2
      [] method = "make_reference_periods" -> 3
      [] method = "make_parameters"        -> 4
      [] method = "make_index"             -> 5

\* the stage an event of the log belongs to
StageRank(e) ==
    IF e.op = "call" THEN MethodRank(e.h)
    ELSE IF e.op \in {"compute_fn", "post_agg_fn"} \/ e.h = "data" THEN 2
    ELSE IF e.op = "calc_parameters" \/ e.h \in Range(parameters) THEN 4
    ELSE 5

\* the reference periods of the timesteps of the invocation
ExpectedPeriods ==
    {reference_fn(args.reference, time) :
        time \in Range(create_timesteps(args.current[1], args.current[2],
                                        args.timesteps_per_year))}

Calls == EventsOf(log, {"call"})

StageOrder ==
    pc \notin {"idle", "init_raised"} =>
    /\ \A j, k \in 1..Len(log) : j < k => StageRank(log[j]) <= StageRank(log[k])
    /\ \A k \in 1..Len(log) :
        PostWork(log[k]) =>
            \E j \in 1..(k - 1) : IsRead(j, "index", log[j].tags) /\ ~PostWork(log[j])
    /\ \A j, k \in 1..Len(log) :
        /\ (IsWrite(j, "data", log[j].tags) /\ log[k].h \in Range(parameters)) => j < k
        /\ (/\ log[j].op = "write_data" /\ log[j].h \in Range(parameters)
            /\ IsWrite(k, "index", log[k].tags)) => j < k
    /\ pc = "done" =>
        /\ [k \in 1..Len(Calls) |-> Calls[k].h] =
                <<"make_data_timesteps", "make_input_data", "make_reference_periods">>
                \o [k \in 1..Cardinality(ExpectedPeriods) |-> "make_parameters"]
                \o <<"make_index">>
        /\ {Calls[k].arg : k \in {c \in 1..Len(Calls) : Calls[c].h = "make_parameters"}}
                = ExpectedPeriods

\* compute has returned after writing aggregated data, the parameters of
\* three reference periods, the base index and the post-processed index
StageOrderWitness ==
    /\ pc = "done"
    /\ Cardinality(ExpectedPeriods) = 3
    /\ \E j \in 1..Len(log) : IsWrite(j, "data", log[j].tags)
    /\ \E j \in 1..Len(log) : log[j].op = "write_data" /\ log[j].h \in Range(parameters)
    /\ \E j \in 1..Len(log) : BaseWork(log[j]) /\ log[j].op = "write_data"
    /\ \E j \in 1..Len(log) : PostWork(log[j]) /\ log[j].op = "write_data"

(***************************************************************************)
(* C9.  The post-processing never reads a missing base value: when it      *)
(* calls get_data(time) on the handle of the base index of a full case, a  *)
(* value is persisted at that time under the scope of that handle; and the *)
(* post-processed value is written under the scope of the full case        *)
(* combined with the tags of the post case.                                *)
(***************************************************************************)
PostReadsPersistedBase ==
    /\ \A k \in Events({"get_data"}) :
        HasData(store, "index", log[k].tags, log[k].time)
    /\ \A k \in Events({"post_fn"}) :
        /\ log[k - 1].op = "get_data"
        /\ IsWrite(k + 1, "index",
                   UpdateTags(log[k - 1].tags, Tag("post_fn", log[k].h)))

(***************************************************************************)
(* C10.  Calendar round-trip: for every cadence n of 1, 2, 3, 4, 6, 12, 24 *)
(* and 36 and every date d (days 29 to 31 and leap years included), the    *)
(* first day of the interval of d is at or before d, and its last day is   *)
(* at or after d.                                                          *)
(***************************************************************************)
CalendarRoundTrip ==
    cal.pc = "done" => (cal.first <= cal.date /\ cal.date <= cal.last)

\* the round trip of 31 December of a leap year at the dekad cadence
CalendarRoundTripWitness ==
    /\ cal.pc = "done"
    /\ cal.n = 36
    /\ cal.date = Date(2020, 12, 31)
    /\ cal.first = Date(2020, 12, 21)
    /\ cal.last = Date(2020, 12, 31)

(***************************************************************************)
(* create_timesteps                                                        *)
(***************************************************************************)
IsLeapDay(t) == MonthOf(t) = 2 /\ DayOf(t) = 29

\* C11: at the daily cadence, for every start and end (a start that is a
\* 29 February included), the list create_timesteps returns holds no
\* 29 February and holds every other day from start to end
NoLeapDays ==
    (cal.pc = "returned" /\ cal.n_intervals = 365) =>
        /\ \A k \in 1..Len(cal.timesteps) : ~IsLeapDay(cal.timesteps[k])
        /\ \A d \in cal.time_start..cal.time_end :
                ~IsLeapDay(d) => d \in Range(cal.timesteps)

\* C12: for a valid cadence the list create_timesteps returns is strictly
\* increasing, every element of it is in [start, end], and it is empty when
\* start > end; for any other cadence create_timesteps raises ValueError
\* and returns nothing
TimestepsOrderedInRange ==
    /\ cal.pc = "returned" =>
        /\ cal.n_intervals \in {1, 2, 3, 4, 6, 12, 24, 36, 365}
        /\ \A k \in 1..(Len(cal.timesteps) - 1) : cal.timesteps[k] < cal.timesteps[k + 1]
        /\ \A k \in 1..Len(cal.timesteps) :
                cal.time_start <= cal.timesteps[k] /\ cal.timesteps[k] <= cal.time_end
        /\ cal.time_start > cal.time_end => cal.timesteps = <<>>
    /\ cal.pc = "raised" =>
        /\ cal.n_intervals \notin {1, 2, 3, 4, 6, 12, 24, 36, 365}
        /\ cal.error = "ValueError"
        /\ cal.timesteps = <<>>

\* the quarterly timesteps from 28 February 2019 to 29 February 2020 have
\* been returned: the first is 1 April 2019, not the 1 January of the year
\* of start
TimestepsOrderedInRangeWitness ==
    /\ cal.pc = "returned"
    /\ cal.n_intervals = 4
    /\ cal.time_start = Date(2019, 2, 28)
    /\ cal.time_end = Date(2020, 2, 29)
    /\ cal.timesteps = <<Date(2019, 4, 1), Date(2019, 7, 1), Date(2019, 10, 1), Date(2020, 1, 1)>>

(***************************************************************************)
(* The construction of the index object.                                   *)
(***************************************************************************)
\* the dict-valued options of the configuration, in insertion order
DictOptions == SelectSeq(config.options, LAMBDA option : option.isdict)

ScalarOptions == SelectSeq(config.options, LAMBDA option : ~option.isdict)

RECURSIVE ProductOfSizes(_)
ProductOfSizes(options) ==
    IF Len(options) = 0 THEN 1 ELSE Len(Head(options).labels) * ProductOfSizes(Tail(options))

\* the position, among the labels of a dict-valued option, of the label an
\* opt case carries for it
ChosenPosition(case, option) ==
    IndexOf(option.labels, case.tags["options." \o option.key])

\* case comes before later in product order, the first option varying
\* slowest: they choose the same labels up to some option, for which case
\* chooses an earlier label
BeforeInProduct(case, later) ==
    \E j \in 1..Len(DictOptions) :
        /\ \A i \in 1..(j - 1) :
                ChosenPosition(case, DictOptions[i]) = ChosenPosition(later, DictOptions[i])
        /\ ChosenPosition(case, DictOptions[j]) < ChosenPosition(later, DictOptions[j])

\* C13: the opt cases of a constructed index are the Cartesian product of
\* the labels of the dict-valued options, the first option varying slowest:
\* as many cases as the product of the numbers of labels, ids 0..N-1 in
\* product order, each case with every scalar option unchanged and the
\* value of every chosen label, and named by its chosen labels joined by
\* commas
OptCaseExpansion ==
    pc = "idle" =>
        LET opt == self.cases.opt
        IN  /\ Len(opt) = ProductOfSizes(DictOptions)
            /\ \A n \in 1..Len(opt) :
                /\ opt[n].id = n - 1
                /\ \A k \in 1..Len(ScalarOptions) :
                        opt[n].options[ScalarOptions[k].key] = ScalarOptions[k].values[1]
                /\ \A k \in 1..Len(DictOptions) :
                        /\ ChosenPosition(opt[n], DictOptions[k]) # 0
                        /\ opt[n].options[DictOptions[k].key] =
                                DictOptions[k].values[ChosenPosition(opt[n], DictOptions[k])]
                /\ opt[n].name = Join([k \in 1..Len(DictOptions) |-> opt[n].tags["options." \o DictOptions[k].key]])
            /\ \A n, m \in 1..Len(opt) : n < m => BeforeInProduct(opt[n], opt[m])

\* the index constructed from {A: {x: 1, y: 2}, B: {p: 10, q: 20}, fixed: 7}
\* has four opt cases, the ids 0 to 3, each with fixed = 7, the first being
\* A = x, B = p and the second A = x, B = q
OptCaseExpansionWitness ==
    /\ pc = "idle"
    /\ config.options = <<PermutableOption(1), PermutableOption(2), FixedOption>>
    /\ Len(self.cases.opt) = 4
    /\ \A n \in 1..4 : self.cases.opt[n].id = n - 1 /\ self.cases.opt[n].options["fixed"] = 7
    /\ self.cases.opt[1].tags["options.A"] = "x" /\ self.cases.opt[1].tags["options.B"] = "p"
    /\ self.cases.opt[1].name = "x,p"
    /\ self.cases.opt[2].tags["options.A"] = "x" /\ self.cases.opt[2].tags["options.B"] = "q"

\* C14: in each of the layers agg, opt and post of the cases of a
\* constructed index, the ids are 0, 1, 2, ... in the order of the cases
\* (and so pairwise distinct)
CaseIdsSequential ==
    pc = "idle" =>
        /\ \A n \in 1..Len(self.cases.agg) : self.cases.agg[n].id = n - 1
        /\ \A n \in 1..Len(self.cases.opt) : self.cases.opt[n].id = n - 1
        /\ \A n \in 1..Len(self.cases.post) : self.cases.post[n].id = n - 1

\* an agg_fn value that is a callable, or a sequence of one or two callables
WellFormedFn(fn) ==
    \/ fn.kind = "callable"
    \/ fn.kind \in {"tuple", "list"} /\ fn.len \in {1, 2}

IllFormedEntries == {k \in 1..Len(config.agg_fn) : ~WellFormedFn(config.agg_fn[k].fn)}

\* C15: when an agg_fn entry is neither a callable nor a sequence of one or
\* two callables, the construction fails with ValueError and nothing is
\* registered under the name of that entry
AggSpecValidation ==
    (pc # "new" /\ IllFormedEntries # {}) =>
        /\ pc = "init_raised"
        /\ loc.error = "ValueError"
        /\ \A k \in IllFormedEntries :
                config.agg_fn[k].name \notin Range(loc.time_agg.aggfun)

\* C18: after construction iscontinuous is true exactly when some registered
\* aggregation has a post-aggregation function; it is false when every
\* agg_fn entry is a callable or a sequence of one callable, and when there
\* is no agg_fn entry
ContinuousIffPostAggregation ==
    pc = "idle" =>
        /\ self.iscontinuous <=> self.time_aggregation.postaggfun # {}
        /\ (\A k \in 1..Len(config.agg_fn) :
                \/ config.agg_fn[k].fn.kind = "callable"
                \/ config.agg_fn[k].fn.len = 1)
            => ~self.iscontinuous

\* C18, amended: where the object has no iscontinuous attribute before the
\* construction, or has it as False, iscontinuous is true after the
\* construction exactly when some registered aggregation has a
\* post-aggregation function, and false when every agg_fn entry is a
\* callable or a sequence of one callable and when there is no agg_fn
\* entry; an attribute that is True before the construction is kept
ContinuousIffPostAggregationUnlessClassTrue ==
    pc = "idle" =>
        /\ config.iscontinuous # "True" =>
                /\ self.iscontinuous <=> self.time_aggregation.postaggfun # {}
                /\ (\A k \in 1..Len(config.agg_fn) :
                        \/ config.agg_fn[k].fn.kind = "callable"
                        \/ config.agg_fn[k].fn.len = 1)
                    => ~self.iscontinuous
        /\ config.iscontinuous = "True" => self.iscontinuous

\* an index of a class that defines iscontinuous as False has been
\* constructed from a callable and a tuple of two callables: the second is
\* registered with a post-aggregation function and iscontinuous is set
ContinuousIffPostAggregationUnlessClassTrueWitness ==
    /\ pc = "idle"
    /\ config.iscontinuous = "False"
    /\ Len(config.agg_fn) = 2
    /\ config.agg_fn[1].fn = CallableFn
    /\ config.agg_fn[2].fn = TupleFn(2)
    /\ self.time_aggregation.postaggfun = {config.agg_fn[2].name}
    /\ self.iscontinuous

(***************************************************************************)
(* Errors.                                                                 *)
(***************************************************************************)
\* the calls that read or write the store
StoreOps == {"get_times", "get_data", "write_data"}

\* compute has been invoked with a number of timesteps per year that is not
\* a cadence
InvalidCadence ==
    /\ pc \notin {"idle", "init_raised"}
    /\ args.timesteps_per_year \notin {1, 2, 3, 4, 6, 12, 24, 36, 365}

\* C16: a configuration error is raised before any call of get_times,
\* get_data or write_data, and the store is left as it was: the construction
\* that fails for a missing handle (the index, a parameter, data or data_raw
\* with an aggregation) has made no such call, and compute invoked with a
\* cadence that is not one makes no such call, changes nothing in the store
\* and does not go past the resolution of the timesteps
ConfigErrorsBeforeIO ==
    /\ [](/\ (pc = "init_raised" /\ loc.error = "ValueError") => Events(StoreOps) = {}
          /\ InvalidCadence =>
                /\ Events(StoreOps) = {}
                /\ pc \in {"make_data_timesteps", "make_input_data",
                            "make_reference_periods", "raised"}
                /\ pc = "raised" => loc.error = "ValueError")
    /\ [][InvalidCadence' => store' = store]_vars

\* compute on an index with an aggregation, over a store that holds
\* aggregated data, has been invoked with the cadence 5 and has raised
\* ValueError
ConfigErrorsBeforeIOWitness ==
    /\ pc = "raised"
    /\ loc.error = "ValueError"
    /\ args.timesteps_per_year = 5
    /\ Len(self.cases.agg) > 0
    /\ store # {}

\* the position in the log of the call that raises, 0 before it is made
FailingCall ==
    LET failing == {k \in 1..Len(log) :
                        /\ log[k].op = args.fail.op
                        /\ CallsOf(SubSeq(log, 1, k), args.fail.op) = args.fail.n}
    IN  IF failing = {} THEN 0 ELSE CHOOSE k \in failing : TRUE

\* the values the writes of the log have persisted are in the store
WritesPersisted ==
    \A k \in Events({"write_data"}) :
        \E e \in store : /\ e.h = log[k].h /\ e.tags = log[k].tags
                         /\ e.time = log[k].time /\ e.value = log[k].value

\* C17: when a call of the aggregation function, of calc_parameters, of
\* calc_index or of a post-processing function raises, compute ends with
\* that error, the call is the last thing compute has done (no write
\* follows it), and every value persisted before it, by this invocation or
\* before, is still in the store, unchanged
FailurePropagation ==
    /\ [](FailingCall # 0 =>
            /\ pc = "raised"
            /\ loc.error = "ComputationError"
            /\ FailingCall = Len(log)
            /\ WritesPersisted)
    /\ [][FailingCall' # 0 => \A e \in store : e \in store']_vars

\* the second call of calc_index has raised, after the index of a first
\* timestep has been written
FailurePropagationWitness ==
    /\ pc = "raised"
    /\ loc.error = "ComputationError"
    /\ args.fail = [op |-> "calc_index", n |-> 2]
    /\ \E k \in Events({"write_data"}) : log[k].h = "index"
    /\ \E e \in store : e.h = "index"


\* the (handle, tag scope, time) units the writes of a log address
WrittenUnits(l) ==
    {<<l[k].h, l[k].tags, l[k].time>> : k \in {j \in 1..Len(l) : l[j].op = "write_data"}}

\* the timesteps a get_times of the parameter or of the index stage is set
\* against, in an invocation of arguments a
StageTimesteps(h, a) ==
    IF h = "index"
    THEN Range(create_timesteps(a.current[1], a.current[2], a.timesteps_per_year))
    ELSE Range(md_timesteps(a.timesteps_per_year))

\* the units of the parameters and of the index the get_times of a log have
\* reported as missing
MissedUnits(l, a) ==
    UNION {{<<l[k].h, l[k].tags, t>> : t \in StageTimesteps(l[k].h, a) \ l[k].arg} :
            k \in {j \in 1..Len(l) : l[j].op = "get_times" /\ l[j].h # "data"}}

\* the write at position k of a log follows a get_times on its scope, the
\* last of which has not found its time
ReadAsMissing(l, k) ==
    LET reads == {j \in 1..(k - 1) : /\ l[j].op = "get_times"
                                     /\ l[j].h = l[k].h
                                     /\ l[j].tags = l[k].tags}
    IN  /\ reads # {}
        /\ l[k].time \notin l[SetMax(reads)].arg

\* the units both invocations have written
DuplicateUnits == WrittenUnits(log) \cap WrittenUnits(other.log)

\* C19: two invocations interleaved against the same store race. A unit
\* both have read as missing, which happens when the second reads before the
\* first has written, is calculated and written by both of them; and a unit
\* is written twice in no other way: each of the two writes follows a
\* get_times of its own invocation that has not found the time
ConcurrentRace ==
    /\ \A l \in {log, other.log} :
        \A k \in 1..Len(l) :
            (l[k].op = "write_data" /\ <<l[k].h, l[k].tags, l[k].time>> \in DuplicateUnits)
                => ReadAsMissing(l, k)
    /\ (pc = "done" /\ other.pc = "done") =>
            \A u \in MissedUnits(log, args) \cap MissedUnits(other.log, other.args) :
                u \in DuplicateUnits

\* both invocations have returned, and both have written one same unit of
\* the parameter and one same unit of the index
ConcurrentRaceWitness ==
    /\ pc = "done"
    /\ other.pc = "done"
    /\ \E u \in DuplicateUnits : u[1] = "index"
    /\ \E u \in DuplicateUnits : u[1] = parameters[1]


\* the timesteps make_input_data is given by the invocation in progress
TargetTimesteps ==
    make_data_timesteps(create_timesteps(args.current[1], args.current[2], agg_timesteps_per_year),
                        agg_timesteps_per_year)

\* C20: when get_times finds none of the timesteps of an aggregation with a
\* post-aggregation function, the resolution of its timesteps to compute
\* raises nothing, and once make_input_data has returned the store holds the
\* aggregated data of every one of the timesteps
OrderedOnEmptyStore ==
    \A k \in Events({"get_times"}) :
        \A nm \in postaggfun :
            (log[k].h = "data" /\ log[k].tags = Tag("agg_fn", nm) /\ log[k].arg = {})
                => /\ ~(pc = "raised" /\ loc.error = "IndexError")
                   /\ pc \in {"make_reference_periods", "make_parameters", "make_index",
                              "post_processing", "done"}
                        => \A time \in Range(TargetTimesteps) :
                                HasData(store, "data", Tag("agg_fn", nm), time)


\* the positions in the log of the calls of the aggregation function of a
\* name, of its post-aggregation function, and of the writes of its data
ChainCalls(nm) == {k \in 1..Len(log) : log[k].op = "compute_fn" /\ log[k].h = nm}

ChainPosts(nm) == {k \in 1..Len(log) : log[k].op = "post_agg_fn" /\ log[k].h = nm}

ChainWrites(nm) == {k \in 1..Len(log) : IsWrite(k, "data", Tag("agg_fn", nm))}

\* the rank of the position k among the positions S
RankIn(S, k) == Cardinality({j \in S : j <= k})

\* C21: for an aggregation with a post-aggregation function, the aggregation
\* function is called on strictly increasing times, the post-aggregation
\* function is called once, on the values of these calls in their order, and
\* every write of the aggregation follows it, the k-th one persisting its
\* k-th output under the time of the k-th call
ChainInOrder ==
    \A nm \in postaggfun :
        /\ \A j, k \in ChainCalls(nm) : j < k => log[j].time < log[k].time
        /\ Cardinality(ChainPosts(nm)) <= 1
        /\ \A p \in ChainPosts(nm) :
            /\ \A c \in ChainCalls(nm) : c < p
            /\ Len(log[p].arg) = Cardinality(ChainCalls(nm))
            /\ \A c \in ChainCalls(nm) : log[p].arg[RankIn(ChainCalls(nm), c)] = log[c].value
        /\ \A w \in ChainWrites(nm) :
            \E p \in ChainPosts(nm), c \in ChainCalls(nm) :
                /\ p < w
                /\ RankIn(ChainCalls(nm), c) = RankIn(ChainWrites(nm), w)
                /\ log[w].time = log[c].time
                /\ log[w].value = log[p].arg[RankIn(ChainWrites(nm), w)]

\* compute has returned after the post-aggregation function of a name was
\* given two values and both were written
ChainInOrderWitness ==
    /\ pc = "done"
    /\ \E nm \in postaggfun :
        /\ Cardinality(ChainCalls(nm)) = 2
        /\ Cardinality(ChainWrites(nm)) = 2


\* a date create_timesteps yields at the cadence n: the first day of an
\* interval of the year, or any day but a 29 February at the daily cadence
IsCadenceTimestep(d, n) ==
    IF n = 365 THEN ~IsLeapDay(d)
    ELSE d = get_date_from_interval(get_interval(d, n), YearOf(d), n, FALSE)

CadenceTimestepsIn(lo, hi, n) == {d \in lo..hi : IsCadenceTimestep(d, n)}

\* the timesteps of current, and the reference periods of these
CurrentTimesteps == CadenceTimestepsIn(args.current[1], args.current[2], agg_timesteps_per_year)

CurrentReferences == {reference_fn(args.reference, time) : time \in CurrentTimesteps}

\* C22: the timesteps make_data_timesteps returns are in increasing order
\* without repetition; with iscontinuous they are every timestep of the
\* cadence from the earliest start of a reference period of a current
\* timestep to the last current timestep, and without it the timesteps of
\* the cadence from that start to the latest end of a reference period,
\* together with the current timesteps
DataFetchWindow ==
    pc = "make_input_data" =>
        LET n == agg_timesteps_per_year
            first == SetMin({ref[1] : ref \in CurrentReferences})
            last == SetMax({ref[2] : ref \in CurrentReferences})
            returned == loc.data_timesteps
        IN  /\ \A j, k \in 1..Len(returned) : j < k => returned[j] < returned[k]
            /\ Range(returned) =
                IF self.iscontinuous
                THEN CadenceTimestepsIn(first, SetMax(CurrentTimesteps), n)
                ELSE CadenceTimestepsIn(first, last, n) \cup CurrentTimesteps

\* with iscontinuous, the window runs from a reference period that ends
\* months before current to the last current timestep
DataFetchWindowWitness ==
    /\ pc = "make_input_data"
    /\ self.iscontinuous
    /\ args.reference.kind = "tuple"
    /\ args.reference.end = Date(2019, 5, 20)
    /\ args.timesteps_per_year = 12
    /\ Date(2019, 9, 1) \in Range(loc.data_timesteps)
    /\ Date(2020, 9, 1) \in Range(loc.data_timesteps)


\* C23: the day-positions make_parameters calculates parameters for are
\* those of the cadence of the data, 365 when no aggregation is configured
\* and timesteps_per_year otherwise: once the parameters of every reference
\* period are made, each parameter is persisted at every day-position of
\* that cadence, and calc_parameters was called on no other time
ParametersAtDataCadence ==
    pc = "make_index" =>
        /\ \A k \in Events({"calc_parameters"}) :
                log[k].time \in Range(md_timesteps(agg_timesteps_per_year))
        /\ \A time \in Range(md_timesteps(agg_timesteps_per_year)) :
            \A par \in Range(parameters) :
                \E e \in store : e.h = par /\ e.time = time


\* the scope a parameter of a full case is persisted under for a reference
\* period: the tags of the aggregation case, the tags the opt case was
\* constructed with, and the start and the end of the period
ParameterScopeOf(a, case, history) ==
    UpdateTags(UpdateTags(agg_tags(a), get_cases(config).opt[case].tags), HistoryTags(history))

\* the (parameter, case id) pairs the store holds no value of, for a
\* day-position, an aggregation case and a reference period
MissingPairs(st, a, history, time) ==
    {<<par, get_cases(config).opt[case].id>> :
        <<par, case>> \in {pr \in (1..Len(parameters)) \X (1..Len(get_cases(config).opt)) :
            ~HasData(st, parameters[pr[1]], ParameterScopeOf(a, pr[2], history), time)}}

\* the (parameter, case id) pairs of a par_and_cases argument
AskedPairs(asked) ==
    UNION {{<<asked[x].par, asked[x].cases[y]>> : y \in 1..Len(asked[x].cases)} :
            x \in 1..Len(asked)}

\* one make_parameter_1agg: calc_parameters is called once for every
\* day-position that misses a pair and for no other, with the missing pairs
FitterRequest ==
    pc = "make_parameters" =>
        LET called == SubSeq(log', Len(log) + 1, Len(log'))
            history == loc.reference_periods[loc.r]
        IN  \A time \in Range(md_timesteps(args.timesteps_per_year)) :
                LET at == {k \in 1..Len(called) :
                                called[k].op = "calc_parameters" /\ called[k].time = time}
                    missing == MissingPairs(store, loc.a, history, time)
                IN  /\ Cardinality(at) = IF missing = {} THEN 0 ELSE 1
                    /\ \A k \in at : AskedPairs(called[k].arg) = missing

\* C24: for a reference period and an aggregation case, calc_parameters is
\* called at most once for a day-position, only when a (parameter, opt case)
\* is not persisted there, and it is asked for exactly the (parameter, case
\* id) pairs that are not persisted under the tags of the aggregation case,
\* of the opt case and of the period
FitterRequestExact == [][FitterRequest]_vars

\* the same, for the first invocation on an object
FitterRequestExactFirstRun == [][~prev.valid => FitterRequest]_vars


\* the store holds, for an aggregation case and a reference period, a value
\* of every parameter for every opt case and every day-position
ParametersPersisted(st, a, history) ==
    \A time \in Range(md_timesteps(args.timesteps_per_year)) :
        MissingPairs(st, a, history, time) = {}

\* once compute has made the parameters of every reference period, they are
\* all persisted
AllParametersPersisted ==
    pc = "make_index" =>
        \A r \in 1..Len(loc.reference_periods), a \in 1..NumAggCases :
            ParametersPersisted(store, a, loc.reference_periods[r])

\* make_parameters on parameters that are all persisted calls no
\* calc_parameters
PersistedNotRefitted ==
    (pc = "make_parameters" /\ ParametersPersisted(store, loc.a, loc.reference_periods[loc.r]))
        => \A k \in (Len(log) + 1)..Len(log') : log'[k].op # "calc_parameters"

\* C25: after make_parameters has returned for a reference period, every
\* parameter is persisted for every aggregation case, opt case and
\* day-position under the tags of the aggregation case, of the opt case and
\* of the period, at the day-position; and make_parameters for a period on
\* which this holds calls calc_parameters zero times
ParameterPersistence == []AllParametersPersisted /\ [][PersistedNotRefitted]_vars

\* the same, for the first invocation on an object
ParameterPersistenceFirstRun ==
    [](~prev.valid => AllParametersPersisted) /\ [][~prev.valid => PersistedNotRefitted]_vars


\* the reference periods make_parameters was called with, in order
ParameterPeriods ==
    LET made == SelectSeq(Calls, LAMBDA e : e.h = "make_parameters")
    IN  [k \in 1..Len(made) |-> made[k].arg]

\* a reference period comes before another in the order of (start, end)
PeriodBefore(p, q) == p[1] < q[1] \/ (p[1] = q[1] /\ p[2] < q[2])

\* C26: make_reference_periods returns every reference period of the
\* timesteps of the invocation once, in ascending order of (start, end), and
\* compute calls make_parameters once for each of them, in that order: once
\* in all when the reference is a tuple
ReferencePeriodsOnce ==
    /\ pc \in {"make_parameters", "make_index"} =>
        /\ Range(loc.reference_periods) = ExpectedPeriods
        /\ \A j, k \in 1..Len(loc.reference_periods) :
                j < k => PeriodBefore(loc.reference_periods[j], loc.reference_periods[k])
    /\ pc \in {"make_index", "post_processing", "done"} =>
        /\ Range(ParameterPeriods) = ExpectedPeriods
        /\ \A j, k \in 1..Len(ParameterPeriods) :
                j < k => PeriodBefore(ParameterPeriods[j], ParameterPeriods[k])
        /\ args.reference.kind = "tuple" => Len(ParameterPeriods) = 1

\* compute has returned, three timesteps having had one same reference
\* period in an invocation and three periods in another
ReferencePeriodsOnceWitness ==
    /\ pc = "done"
    /\ args.current[2] = Date(2020, 9, 30)
    /\ \/ args.reference.kind = "tuple" /\ Len(ParameterPeriods) = 1
       \/ args.reference.kind = "callable" /\ Len(ParameterPeriods) = 3
    /\ prev.valid
    /\ prev.args.current[2] = Date(2020, 9, 30)
    /\ prev.args.reference.kind # args.reference.kind


\* C27: the tag scope the base index of a full case is read and written
\* under is made of the tags of its aggregation case, of the tags its opt
\* case was constructed with and of an empty post_fn, whatever cases,
\* timesteps and reference periods were processed before, in this invocation
\* or in an earlier one
BaseIndexScopeOwnTags ==
    [][pc = "make_index" =>
        \A k \in 1..Len(NewEvents) :
            (NewEvents[k].h = "index" /\ NewEvents[k].op \in {"get_times", "write_data"})
                => NewEvents[k].tags = FullCaseScope(loc.a, loc.o)
      ]_vars


\* C28: the construction makes one post case for every post-processing
\* function name, in their order, tagged {post_fn: name}, and none when no
\* function is configured; making the cases raises nothing, whether
\* aggregations are configured or not
PostCasesOnePerName ==
    /\ pc = "init_raised" => loc.error # "UnboundLocalError"
    /\ pc = "idle" =>
        /\ Len(self.cases.post) = Len(config.post_fn)
        /\ \A k \in 1..Len(config.post_fn) :
            /\ self.cases.post[k].name = config.post_fn[k]
            /\ self.cases.post[k].tags = Tag("post_fn", config.post_fn[k])


\* C29: for every cadence n of 1, 2, 3, 4, 6, 12, 24 and 36, every year and
\* every interval i of 1..n, the last day of interval i is the day before
\* the first day of interval i + 1 (before 1 January of the next year when
\* i = n), and the interval of every date of the year is in 1..n
IntervalsPartitionYear ==
    cal.pc = "done" =>
        /\ cal.interval \in 1..cal.n
        /\ cal.last + 1 =
            IF cal.interval = cal.n
            THEN Date(YearOf(cal.date) + 1, 1, 1)
            ELSE get_date_from_interval(cal.interval + 1, YearOf(cal.date), cal.n, FALSE)
        /\ \A i \in 1..cal.n :
            get_date_from_interval(i, YearOf(cal.date), cal.n, TRUE) + 1 =
                IF i = cal.n
                THEN Date(YearOf(cal.date) + 1, 1, 1)
                ELSE get_date_from_interval(i + 1, YearOf(cal.date), cal.n, FALSE)

\* the dekad that ends on 29 February of a leap year, followed by the dekad
\* of 1 March
IntervalsPartitionYearWitness ==
    /\ cal.pc = "done"
    /\ cal.n = 36
    /\ cal.date = Date(2020, 2, 25)
    /\ cal.interval = 6
    /\ cal.last = Date(2020, 2, 29)
    /\ get_date_from_interval(7, 2020, 36, FALSE) = Date(2020, 3, 1)


(***************************************************************************)
(* get_window                                                              *)
(***************************************************************************)
\* the last day of a dekad: the 10th, the 20th, or the last day of a month
IsDekadEnd(t) == DayOf(t) \in {10, 20} \/ DayOf(t + 1) = 1

\* the first day of a dekad: the 1st, the 11th or the 21st
IsDekadStart(t) == DayOf(t) \in {1, 11, 21}

\* the dekads from the year 0 to the one of a date
DekadNumber(t) ==
    YearOf(t) * 36 + (MonthOf(t) - 1) * 3 + Min2((DayOf(t) - 1) \div 10, 2)

\* C30: the range get_window returns ends the day before time; for the
\* unit dekad and a size of at least 1, when the day before time is the
\* last day of a dekad the range starts on the first day of the dekad
\* size - 1 dekads before that one, and otherwise at time minus 10 x size
\* days
WindowOfDekads ==
    cal.pc = "returned" =>
        /\ cal.end = cal.time - 1
        /\ (plural(cal.unit) = UnitDekads /\ cal.size >= 1) =>
            IF IsDekadEnd(cal.time - 1)
            THEN /\ IsDekadStart(cal.start)
                 /\ DekadNumber(cal.end) - DekadNumber(cal.start) = cal.size - 1
            ELSE cal.start = cal.time - 10 * cal.size

\* the four dekads before 11 January 2019: from 1 December 2018, across the
\* year boundary and a month of 31 days
WindowOfDekadsWitness ==
    /\ cal.pc = "returned"
    /\ cal.time = Date(2019, 1, 11)
    /\ cal.size = 4
    /\ cal.unit = UnitDekad
    /\ cal.start = Date(2018, 12, 1)
    /\ cal.end = Date(2019, 1, 10)


(***************************************************************************)
(* make_input_data with stateless and order-dependent aggregations         *)
(***************************************************************************)
\* stateless and order-dependent aggregation names are both registered
MixedAggregations ==
    /\ \E k \in 1..Len(agg_names) : agg_names[k] \in postaggfun
    /\ \E k \in 1..Len(agg_names) : agg_names[k] \notin postaggfun

\* make_input_data raises no KeyError
NoAggDataKeyError == ~(pc = "raised" /\ loc.error = "KeyError")

\* when make_input_data returns, the data of every aggregation name holds a
\* value for every timestep of the gap of that name
GapsPersisted ==
    (pc \in {"agg_iterate", "agg_post"} /\ pc' = "make_reference_periods") =>
        \A nm \in Range(agg_names) :
            \A k \in 1..Len(loc.timesteps_to_compute[nm]) :
                HasData(store', "data", Tag("agg_fn", nm), loc.timesteps_to_compute[nm][k])

\* C31: with stateless and order-dependent aggregation names registered, in
\* any order, make_input_data raises no error of its own and, when it
\* returns, has persisted for each name a value for every timestep of the
\* gap of that name
MixedAggregationsComplete ==
    /\ [](MixedAggregations => NoAggDataKeyError)
    /\ [][MixedAggregations => GapsPersisted]_vars

\* the same, when the name registered last is order-dependent
MixedAggregationsLastOrderDependent ==
    /\ []((MixedAggregations /\ agg_names[Len(agg_names)] \in postaggfun) => NoAggDataKeyError)
    /\ [][(MixedAggregations /\ agg_names[Len(agg_names)] \in postaggfun) => GapsPersisted]_vars


(***************************************************************************)
(* The number of timesteps of a cadence.                                   *)
(***************************************************************************)
\* the start is the 1 January and the end the 31 December of the same year
WholeYear ==
    /\ MonthOf(cal.time_start) = 1 /\ DayOf(cal.time_start) = 1
    /\ MonthOf(cal.time_end) = 12 /\ DayOf(cal.time_end) = 31
    /\ YearOf(cal.time_start) = YearOf(cal.time_end)

\* C32: for every valid cadence n and every year, leap or not, the
\* timesteps create_timesteps returns from the 1 January to the 31 December
\* of the year are exactly n, and ntimesteps_to_md(n) returns exactly n
\* (month, day) positions, pairwise distinct and none of them (2, 29)
CadenceCount ==
    /\ (cal.pc \in {"returned", "md"} /\ WholeYear) =>
            Len(cal.timesteps) = cal.n_intervals
    /\ cal.pc = "md" =>
        /\ Len(cal.md) = cal.n_intervals
        /\ Cardinality(Range(cal.md)) = Len(cal.md)
        /\ \A k \in 1..Len(cal.md) : cal.md[k] # <<2, 29>>

\* the daily cadence over the leap year 2020: 365 timesteps, 365 positions
CadenceCountWitness ==
    /\ cal.pc = "md"
    /\ cal.n_intervals = 365
    /\ cal.time_start = Date(2020, 1, 1)
    /\ cal.time_end = Date(2020, 12, 31)
    /\ Len(cal.timesteps) = 365
    /\ Date(2020, 2, 29) \notin Range(cal.timesteps)
    /\ Len(cal.md) = 365

====
